---------------------------- MODULE Spec2Model ----------------------------
(***************************************************************************)
(* Trading-simulation and portfolio-accounting engine of the-hand.         *)
(*                                                                         *)
(* Quantities.  The Python code computes in floats; the model computes in  *)
(* exact arithmetic.  Amounts are integer numbers of lots, prices and the  *)
(* balance are integer numbers of money units, and the one quantity the    *)
(* code obtains by a division, a position's avg_price, is an exact         *)
(* rational [n, d] in lowest terms with d > 0.                             *)
(***************************************************************************)
EXTENDS Integers, Sequences, FiniteSets, TLC

(***************************************************************************)
(* Bounds of the model.                                                    *)
(***************************************************************************)
MaxCalls == 3
MaxAmount == 2
MaxPrice == 2
MaxInitialBalance == 4
\* Trades made before a ledger is valued.
MaxValuedTrades == 2
\* The coordinator's orders: calls, lots per order, quoted prices.
MaxCoordinatorCalls == 2
MaxOrderAmount == 1
MaxQuote == 1
\* The backtests: run_backtest calls, rows replayed in all, timestamps.
MaxRuns == 2
MaxRows == 2
MaxTimestamp == 2
\* Slippage samples are multiples of 1/SlipDen.
SlipDen == 2
\* The risk checks: calls, and the largest portfolio value passed.
MaxChecks == 4
MaxEquity == 3
\* The journal file: EventLogger instances on it, and log_event calls.
MaxLoggers == 2
MaxLogged == 3
\* The asset pairs of one Strategist.run.
MaxPairs == 3

Symbols == {"BTC", "ETH"}
InitialBalances == {0, MaxInitialBalance}

\* Orders a caller that respects the contract submits to the ledger.
WellFormedTypes == {"buy", "sell"}
WellFormedAmounts == 1..MaxAmount
WellFormedPrices == 1..MaxPrice

\* Everything a caller can pass: the ledger's signature accepts any value.
AnyTypes == {"buy", "sell", "short"}
AnyAmounts == (-1)..MaxAmount
AnyPrices == (-1)..MaxPrice

VARIABLES
    balance_usd,     \* PortfolioManager.balance_usd
    positions,       \* PortfolioManager.positions: symbol -> [amount, avg_price]
    trade_history,   \* PortfolioManager.trade_history
    journal,         \* the lines of the file at EventLogger.filepath
    header_written,  \* EventLogger.header_written
    mode,            \* ExecutionCoordinator.mode
    bt_pc,           \* where BacktestEngine.run_backtest is: idle, replaying, done
    bt_data,         \* run_backtest's historical_data after sort_index
    bt_i,            \* the number of rows the loop has replayed
    bt_initial,      \* run_backtest's initial_balance_usd
    bt_summary,      \* what run_backtest returned
    bt_runs,         \* the number of run_backtest calls so far
    clock,           \* the wall clock read by pd.Timestamp.now(): one tick per call
    last,            \* the last call made and what it returned
    bt_signals,      \* history: the signals the strategy answered in this run
    bt_start,        \* history: the journal's length when this run started
    bt_prev,         \* history: what the run before this one ended with
    bt_input,        \* history: historical_data as the caller passed it
    max_drawdown,      \* RiskManager.max_drawdown, a rational
    max_position_size, \* RiskManager.max_position_size, a rational
    risk_per_trade,    \* RiskManager.risk_per_trade, a rational
    current_drawdown,  \* RiskManager.current_drawdown, a rational
    peak_equity,       \* RiskManager.peak_equity
    exceeded_at,       \* history: the greatest value reported as exceeded, if any
    loggers,           \* header_written of each further EventLogger on the journal file
    held_ref,          \* the object a caller holds from its last read of the positions
    st_pc,             \* where Strategist.run is: fetch, execute, done
    st_pair,           \* the index in asset_pairs of the pair being processed
    st_prices,         \* Strategist.current_prices
    st_order           \* order_params of the pair being processed

ledger == <<balance_usd, positions, trade_history>>
logger == <<journal, header_written>>
backtest == <<bt_pc, bt_data, bt_i, bt_initial, bt_summary, bt_runs>>
\* The history variables record runs for comparison; no action reads them.
history == <<bt_signals, bt_start, bt_prev, bt_input>>
risk == <<max_drawdown, max_position_size, risk_per_trade, current_drawdown, peak_equity,
          exceeded_at>>
\* What callers of the coordinator and of the logger hold.
callers == <<loggers, held_ref>>
strategist == <<st_pc, st_pair, st_prices, st_order>>
vars == <<balance_usd, positions, trade_history, journal, header_written, mode,
          bt_pc, bt_data, bt_i, bt_initial, bt_summary, bt_runs, clock, last,
          bt_signals, bt_start, bt_prev, bt_input,
          max_drawdown, max_position_size, risk_per_trade, current_drawdown,
          peak_equity, exceeded_at, loggers, held_ref,
          st_pc, st_pair, st_prices, st_order>>

(***************************************************************************)
(* Exact rationals, for the float division of update_position.             *)
(***************************************************************************)
Abs(x) == IF x < 0 THEN -x ELSE x

RECURSIVE GCD(_, _)
GCD(a, b) == IF b = 0 THEN a ELSE GCD(b, a % b)

\* n / d in lowest terms, d # 0
Rat(n, d) ==
    LET g == GCD(Abs(n), Abs(d))
        s == IF d < 0 THEN -1 ELSE 1
    IN  [n |-> (s * n) \div g, d |-> (s * d) \div g]

RatOfInt(i) == [n |-> i, d |-> 1]
RatZero == RatOfInt(0)
\* i * q, q + i and q / i for an integer i
RatMulInt(q, i) == Rat(q.n * i, q.d)
RatAddInt(q, i) == Rat(q.n + i * q.d, q.d)
RatDivInt(q, i) == Rat(q.n, q.d * i)
\* i - q for an integer i, and the sum of two rationals
RatSubFrom(i, q) == Rat(i * q.d - q.n, q.d)
RatAdd(p, q) == Rat(p.n * q.d + q.n * p.d, p.d * q.d)

(***************************************************************************)
(* PortfolioManager                                                        *)
(***************************************************************************)
NoPositions == [s \in {} |-> [amount |-> 0, avg_price |-> RatZero]]

update_balance_mut_no_credit(bal, amount_usd) ==
    IF amount_usd > 0 THEN bal ELSE bal + amount_usd

update_balance(bal, amount_usd) == bal + amount_usd

\* The average price after the amount went from previous_amount to
\* current_amount at this price.
new_avg_price_mut_no_reset(avg_price, previous_amount, amount_change, price) ==
    IF previous_amount = 0
    THEN RatOfInt(price)
    ELSE IF previous_amount + amount_change = 0
         THEN avg_price
         ELSE RatDivInt(RatAddInt(RatMulInt(avg_price, previous_amount),
                                  amount_change * price),
                        previous_amount + amount_change)

new_avg_price_mut_unweighted(avg_price, previous_amount, amount_change, price) ==
    IF previous_amount + amount_change = 0
    THEN RatZero
    ELSE IF previous_amount = 0
         THEN RatOfInt(price)
         ELSE RatDivInt(RatAddInt(avg_price, price), 2)

new_avg_price(avg_price, previous_amount, amount_change, price) ==
    LET current_amount == previous_amount + amount_change
    IN  IF current_amount = 0
        THEN RatZero
        ELSE IF previous_amount = 0
             THEN RatOfInt(price)
             ELSE LET total_value_before == RatMulInt(avg_price, previous_amount)
                      total_value_added == amount_change * price
                  IN  RatDivInt(RatAddInt(total_value_before, total_value_added),
                                current_amount)

update_position(pos, symbol, amount_change, price) ==
    LET pos1 == IF symbol \in DOMAIN pos
                THEN pos
                ELSE pos @@ (symbol :> [amount |-> 0, avg_price |-> RatZero])
        current_position == pos1[symbol]
        previous_amount == current_position.amount
        current_amount == previous_amount + amount_change
    IN  [pos1 EXCEPT ![symbol] =
            [amount |-> current_amount,
             avg_price |-> new_avg_price(current_position.avg_price,
                                         previous_amount, amount_change, price)]]

\* The guards of the two branches of execute_trade.
buy_accepted_mut_always(bal, usd_value) == TRUE

buy_accepted_mut_any_funds(bal, usd_value) == bal > 0

buy_accepted_mut_strict(bal, usd_value) == bal > usd_value

buy_accepted(bal, usd_value) == bal >= usd_value

sell_accepted_mut_held(pos, symbol, amount) == symbol \in DOMAIN pos

sell_accepted(pos, symbol, amount) ==
    symbol \in DOMAIN pos /\ pos[symbol].amount >= amount

trade_record_mut_unit_value(order_type, symbol, amount, price, timestamp) ==
    [type |-> order_type, symbol |-> symbol, amount |-> amount, price |-> price,
     usd_value |-> price, timestamp |-> timestamp]

trade_record(order_type, symbol, amount, price, timestamp) ==
    [type |-> order_type, symbol |-> symbol, amount |-> amount, price |-> price,
     usd_value |-> amount * price, timestamp |-> timestamp]

\* PortfolioManager.execute_trade on the ledger (bal, pos, hist), called when
\* the clock reads now: the value returned (ok) and the ledger it leaves.
PortfolioManager_execute_trade(bal, pos, hist, order_type, symbol, amount, price, now) ==
    LET usd_value == amount * price
        rejected == [ok |-> FALSE, balance_usd |-> bal, positions |-> pos,
                     trade_history |-> hist]
    IN  IF order_type = "buy"
        THEN IF buy_accepted(bal, usd_value)
             THEN [ok |-> TRUE,
                   balance_usd |-> update_balance(bal, -usd_value),
                   positions |-> update_position(pos, symbol, amount, price),
                   trade_history |->
                       Append(hist, trade_record("buy", symbol, amount, price, now))]
             ELSE rejected
        ELSE IF order_type = "sell"
        THEN IF sell_accepted(pos, symbol, amount)
             THEN [ok |-> TRUE,
                   balance_usd |-> update_balance(bal, usd_value),
                   positions |-> update_position(pos, symbol, -amount, price),
                   trade_history |->
                       Append(hist, trade_record("sell", symbol, amount, price, now))]
             ELSE rejected
        ELSE rejected

(***************************************************************************)
(* A caller holding a PortfolioManager calls execute_trade on it.          *)
(***************************************************************************)
NoCall == [op |-> "none"]
NoSummary == [status |-> "none"]

\* Nothing is recorded yet.
NoRun == [status |-> "none"]
NoHistory ==
    /\ bt_signals = << >>
    /\ bt_start = 0
    /\ bt_prev = NoRun
    /\ bt_input = << >>

\* A run that is not recorded for comparison with the next.
Unrecorded == UNCHANGED <<bt_signals, bt_prev, bt_input>>

\* No drawdown check has reported a value as exceeded.
NeverExceeded == {}

\* No RiskManager is in use.
NoRisk ==
    /\ max_drawdown = RatZero
    /\ max_position_size = RatZero
    /\ risk_per_trade = RatZero
    /\ current_drawdown = RatZero
    /\ peak_equity = 0
    /\ exceeded_at = NeverExceeded

\* No caller holds anything, and no Strategist is in use.
NoOrder == [order_type |-> "none"]
NoPrices == [s \in {} |-> 0]
NoCallers ==
    /\ loggers = << >>
    /\ held_ref = "none"
    /\ st_pc = "done"
    /\ st_pair = 0
    /\ st_prices = NoPrices
    /\ st_order = NoOrder

\* No BacktestEngine is in use.
NoBacktest ==
    /\ NoHistory
    /\ bt_pc = "idle"
    /\ bt_data = << >>
    /\ bt_i = 0
    /\ bt_initial = 0
    /\ bt_summary = NoSummary
    /\ bt_runs = 0

InitLedger ==
    /\ balance_usd \in InitialBalances
    /\ positions = NoPositions
    /\ trade_history = << >>
    /\ journal = << >>
    /\ header_written = FALSE
    /\ mode = "none"
    /\ NoBacktest
    /\ NoRisk
    /\ NoCallers
    /\ clock = 0
    /\ last = NoCall

CallExecuteTrade(order_type, symbol, amount, price) ==
    /\ clock < MaxCalls
    /\ clock' = clock + 1
    /\ LET r == PortfolioManager_execute_trade(balance_usd, positions, trade_history,
                                               order_type, symbol, amount, price,
                                               clock + 1)
       IN  /\ balance_usd' = r.balance_usd
           /\ positions' = r.positions
           /\ trade_history' = r.trade_history
           /\ last' = [op |-> "execute_trade", order_type |-> order_type,
                       symbol |-> symbol, amount |-> amount, price |-> price,
                       ok |-> r.ok]
    /\ UNCHANGED <<journal, header_written, mode>>
    /\ UNCHANGED backtest
    /\ UNCHANGED history
    /\ UNCHANGED risk
    /\ UNCHANGED <<callers, strategist>>

WellFormedCall ==
    \E order_type \in WellFormedTypes, symbol \in Symbols,
       amount \in WellFormedAmounts, price \in WellFormedPrices :
        CallExecuteTrade(order_type, symbol, amount, price)

AnyCall ==
    \E order_type \in AnyTypes, symbol \in Symbols,
       amount \in AnyAmounts, price \in AnyPrices :
        CallExecuteTrade(order_type, symbol, amount, price)

NextLedger == WellFormedCall
SpecLedger == InitLedger /\ [][NextLedger]_vars

NextDirect == AnyCall
SpecDirect == InitLedger /\ [][NextDirect]_vars

(***************************************************************************)
(* PortfolioManager's valuations: get_portfolio_value and calculate_pnl.   *)
(***************************************************************************)
get_portfolio_value_mut_cash_only(bal, pos, current_prices_usd) == bal

\* PortfolioManager.get_portfolio_value: prices maps symbols to prices.
RECURSIVE sum_values(_, _, _)
sum_values(pos, prices, symbols) ==
    IF symbols = {}
    THEN 0
    ELSE LET s == CHOOSE x \in symbols : TRUE
         IN  (IF s \in DOMAIN prices THEN pos[s].amount * prices[s] ELSE 0)
                 + sum_values(pos, prices, symbols \ {s})

get_portfolio_value(bal, pos, current_prices_usd) ==
    bal + sum_values(pos, current_prices_usd, DOMAIN pos)

\* calculate_pnl: the pnl of one position, 0 where none is computed.
position_pnl_mut_per_lot(position, symbol, current_prices_usd) ==
    IF symbol \in DOMAIN current_prices_usd /\ position.amount # 0
    THEN RatSubFrom(current_prices_usd[symbol], position.avg_price)
    ELSE RatZero

position_pnl(position, symbol, current_prices_usd) ==
    IF symbol \in DOMAIN current_prices_usd /\ position.amount # 0
    THEN LET current_value == position.amount * current_prices_usd[symbol]
             cost_basis == RatMulInt(position.avg_price, position.amount)
         IN  RatSubFrom(current_value, cost_basis)
    ELSE RatZero

RECURSIVE sum_pnl(_, _, _)
sum_pnl(pos, prices, symbols) ==
    IF symbols = {}
    THEN RatZero
    ELSE LET s == CHOOSE x \in symbols : TRUE
         IN  RatAdd(position_pnl(pos[s], s, prices), sum_pnl(pos, prices, symbols \ {s}))

calculate_pnl(pos, current_prices_usd) ==
    [position_pnl |-> [s \in DOMAIN pos |-> position_pnl(pos[s], s, current_prices_usd)],
     total_pnl |-> sum_pnl(pos, current_prices_usd, DOMAIN pos)]

\* The current_prices_usd a caller passes: prices for some of the symbols.
PriceMaps == UNION {[S -> WellFormedPrices] : S \in SUBSET Symbols}

CallGetPortfolioValue(current_prices_usd) ==
    /\ last' = [op |-> "get_portfolio_value", prices |-> current_prices_usd,
                value |-> get_portfolio_value(balance_usd, positions, current_prices_usd)]
    /\ UNCHANGED <<ledger, logger, mode, clock>>
    /\ UNCHANGED backtest
    /\ UNCHANGED history
    /\ UNCHANGED risk
    /\ UNCHANGED <<callers, strategist>>

CallCalculatePnl(current_prices_usd) ==
    /\ last' = [op |-> "calculate_pnl", prices |-> current_prices_usd,
                value |-> calculate_pnl(positions, current_prices_usd)]
    /\ UNCHANGED <<ledger, logger, mode, clock>>
    /\ UNCHANGED backtest
    /\ UNCHANGED history
    /\ UNCHANGED risk
    /\ UNCHANGED <<callers, strategist>>

ValuedTrade == clock < MaxValuedTrades /\ WellFormedCall
ValueLedger == \E prices \in PriceMaps : CallGetPortfolioValue(prices)
PnlOfLedger == \E prices \in PriceMaps : CallCalculatePnl(prices)

NextValuation == ValuedTrade \/ ValueLedger \/ PnlOfLedger
SpecValuation == InitLedger /\ [][NextValuation]_vars

(***************************************************************************)
(* EventLogger: the journal file, one line per element.                    *)
(***************************************************************************)
Header == [kind |-> "header"]
RecordLine(event_data) ==
    [kind |-> "record", type |-> event_data.type, symbol |-> event_data.symbol,
     amount |-> event_data.amount, price |-> event_data.price,
     usd_value |-> event_data.usd_value, timestamp |-> event_data.timestamp]

\* What the file may hold when a logger is constructed: nothing, or what an
\* earlier process left in it (timestamp 0 is before the clock started).
OldRecord ==
    RecordLine(trade_record("buy", "BTC", 1, 1, 0))
InitialJournals == {<< >>, <<Header, OldRecord>>}

\* EventLogger.__init__: the file exists and is not empty.
EventLogger_init(jrnl) == jrnl # << >>

\* How the file write inside log_event's try block can end: normally, with
\* open() raising, or with writerow() raising after the header went out.
WriteOutcomes == {"ok", "open_fails", "write_fails"}

log_event_mut_truncate(jrnl, hw, event_data, outcome) ==
    IF outcome = "open_fails"
    THEN [journal |-> jrnl, header_written |-> hw]
    ELSE IF outcome = "write_fails"
         THEN [journal |-> <<Header>>, header_written |-> TRUE]
         ELSE [journal |-> <<Header, RecordLine(event_data)>>,
               header_written |-> TRUE]

log_event(jrnl, hw, event_data, outcome) ==
    IF outcome = "open_fails"
    THEN [journal |-> jrnl, header_written |-> hw]
    ELSE LET with_header == IF ~hw THEN Append(jrnl, Header) ELSE jrnl
         IN  IF outcome = "write_fails"
             THEN [journal |-> with_header, header_written |-> TRUE]
             ELSE [journal |-> Append(with_header, RecordLine(event_data)),
                   header_written |-> TRUE]

log_trade(jrnl, hw, record, outcome) == log_event(jrnl, hw, record, outcome)

(***************************************************************************)
(* Orders as dictionaries: a field may be missing.                         *)
(***************************************************************************)
OrderFields == {"order_type", "symbol", "amount", "price"}
Drop(order, f) == [g \in (DOMAIN order) \ {f} |-> order[g]]
Has(order, f) == f \in DOMAIN order
\* Python truthiness of order_params.get(f): None, 0 and "" are falsy.
TruthyStr(order, f) == Has(order, f) /\ order[f] # ""
TruthyNum(order, f) == Has(order, f) /\ order[f] # 0
all_fields(order) ==
    /\ TruthyStr(order, "order_type")
    /\ TruthyStr(order, "symbol")
    /\ TruthyNum(order, "amount")
    /\ TruthyNum(order, "price")

QuotedPrices == {SlipDen * k : k \in 1..MaxQuote}
GoodOrders ==
    [order_type : WellFormedTypes, symbol : {"BTC"},
     amount : 1..MaxOrderAmount, price : QuotedPrices]
BaseOrders ==
    [order_type : WellFormedTypes, symbol : {"BTC"}, amount : {1}, price : {SlipDen}]
MalformedOrders ==
    UNION {
        {[b EXCEPT !.order_type = "short"],
         [b EXCEPT !.amount = 0], [b EXCEPT !.amount = -1],
         [b EXCEPT !.price = 0], [b EXCEPT !.price = -SlipDen]}
        \cup {Drop(b, f) : f \in OrderFields} : b \in BaseOrders}

(***************************************************************************)
(* VirtualExchange and ExchangeConnector                                   *)
(***************************************************************************)
\* random.gauss(slippage_mean, slippage_std), as a multiple of 1/SlipDen.
SlippageSamples == {-1, 0, 1}

\* price * (1 + slippage) for a buy, price * (1 - slippage) for a sell; exact,
\* the quoted prices being multiples of SlipDen.
executed_price(order_type, price, slippage) ==
    IF order_type = "buy"
    THEN (price * (SlipDen + slippage)) \div SlipDen
    ELSE (price * (SlipDen - slippage)) \div SlipDen

\* Whether execute_order returns before it draws latency and slippage.
exchange_validates(order) ==
    /\ all_fields(order)
    /\ order.order_type \in {"buy", "sell"}
    /\ ~(order.amount <= 0 \/ order.price <= 0)

\* execute_order without the check of the signs of amount and price.
VirtualExchange_execute_order_mut_no_sign_check(order, slippage) ==
    IF ~all_fields(order)
    THEN [status |-> "failure", message |-> "Invalid order parameters"]
    ELSE IF order.order_type \notin {"buy", "sell"}
    THEN [status |-> "failure", message |-> "Invalid order type"]
    ELSE [status |-> "success",
          executed_price |-> executed_price(order.order_type, order.price, slippage),
          executed_amount |-> order.amount,
          symbol |-> order.symbol,
          order_type |-> order.order_type]

VirtualExchange_execute_order(order, slippage) ==
    IF ~all_fields(order)
    THEN [status |-> "failure", message |-> "Invalid order parameters"]
    ELSE IF order.order_type \notin {"buy", "sell"}
    THEN [status |-> "failure", message |-> "Invalid order type"]
    ELSE IF order.amount <= 0 \/ order.price <= 0
    THEN [status |-> "failure", message |-> "Invalid amount or price"]
    ELSE [status |-> "success",
          executed_price |-> executed_price(order.order_type, order.price, slippage),
          executed_amount |-> order.amount,
          symbol |-> order.symbol,
          order_type |-> order.order_type]

\* The live connector: execute_order forwards to place_order, whose response
\* carries the status 'success_placeholder' and no executed_* fields.
ExchangeConnector_execute_order(order) ==
    [status |-> "success_placeholder",
     quantity |-> IF Has(order, "amount") THEN order.amount ELSE 0,
     price |-> IF Has(order, "price") THEN order.price ELSE 0]

(***************************************************************************)
(* ExecutionCoordinator                                                    *)
(***************************************************************************)
InitCoordinator ==
    /\ mode \in {"simulation", "live"}
    \* PortfolioManager(): the default initial balance, in the model's units
    /\ balance_usd = MaxInitialBalance
    /\ positions = NoPositions
    /\ trade_history = << >>
    /\ journal \in InitialJournals
    /\ header_written = EventLogger_init(journal)
    /\ NoBacktest
    /\ NoRisk
    /\ NoCallers
    /\ clock = 0
    /\ last = NoCall

\* The status execute_trade returns, given the exchange's status and whether
\* the ledger applied the trade.
coordinator_status_mut_keep(exchange_status, trade_success) == exchange_status

coordinator_status(exchange_status, trade_success) ==
    IF exchange_status = "success" /\ ~trade_success
    THEN "failure"
    ELSE exchange_status

\* ExecutionCoordinator.execute_trade after the exchange returned
\* execution_result: the status returned, the ledger and the journal.
ExecutionCoordinator_execute_trade(execution_result, bal, pos, hist, jrnl, hw, now, outcome) ==
    IF execution_result.status = "success"
    THEN LET executed_price_ == execution_result.executed_price
             executed_amount == execution_result.executed_amount
             symbol == execution_result.symbol
             order_type == execution_result.order_type
             t == PortfolioManager_execute_trade(bal, pos, hist, order_type, symbol,
                                                 executed_amount, executed_price_, now)
             w == IF t.ok
                  THEN log_trade(jrnl, hw,
                                 trade_record(order_type, symbol, executed_amount,
                                              executed_price_, now),
                                 outcome)
                  ELSE [journal |-> jrnl, header_written |-> hw]
         IN  [status |-> coordinator_status(execution_result.status, t.ok),
              applied |-> t.ok,
              balance_usd |-> t.balance_usd, positions |-> t.positions,
              trade_history |-> t.trade_history,
              journal |-> w.journal, header_written |-> w.header_written]
    ELSE [status |-> coordinator_status(execution_result.status, FALSE),
          applied |-> FALSE,
          balance_usd |-> bal, positions |-> pos, trade_history |-> hist,
          journal |-> jrnl, header_written |-> hw]

\* One call of ExecutionCoordinator.execute_trade(order).  slippage is the
\* sample the simulator draws and outcome how the journal write ends; each is
\* drawn only on the paths that reach it.
CoordinatorExecuteTrade(order, slippage, outcome) ==
    /\ clock < MaxCoordinatorCalls
    /\ clock' = clock + 1
    /\ (mode = "simulation" /\ exchange_validates(order)) \/ slippage = 0
    /\ LET execution_result ==
               IF mode = "simulation"
               THEN VirtualExchange_execute_order(order, slippage)
               ELSE ExchangeConnector_execute_order(order)
           r == ExecutionCoordinator_execute_trade(execution_result, balance_usd,
                    positions, trade_history, journal, header_written,
                    clock + 1, outcome)
       IN  /\ r.applied \/ outcome = "ok"
           /\ balance_usd' = r.balance_usd
           /\ positions' = r.positions
           /\ trade_history' = r.trade_history
           /\ journal' = r.journal
           /\ header_written' = r.header_written
           /\ last' = [op |-> "coordinator_execute_trade", order |-> order,
                       exchange |-> execution_result, outcome |-> outcome,
                       applied |-> r.applied, status |-> r.status]
    /\ UNCHANGED mode
    /\ UNCHANGED backtest
    /\ UNCHANGED history
    /\ UNCHANGED risk
    /\ UNCHANGED <<callers, strategist>>

SubmitGoodOrder ==
    \E order \in GoodOrders, slippage \in SlippageSamples, outcome \in WriteOutcomes :
        CoordinatorExecuteTrade(order, slippage, outcome)

SubmitMalformedOrder ==
    \E order \in MalformedOrders, slippage \in SlippageSamples, outcome \in WriteOutcomes :
        CoordinatorExecuteTrade(order, slippage, outcome)

NextCoordinator == SubmitGoodOrder \/ SubmitMalformedOrder
SpecCoordinator == InitCoordinator /\ [][NextCoordinator]_vars

(***************************************************************************)
(* BacktestEngine                                                          *)
(***************************************************************************)
\* strategy.get_symbol(), and the size of every buy: one lot is 0.01 units.
StrategySymbol == "BTC"
FixedBuyAmount == 1

\* What strategy.generate_signal may return.
Signals == {"buy", "sell", "hold", "other"}

Timestamps == 1..MaxTimestamp
WellFormedRows == [timestamp : Timestamps, close : WellFormedPrices]
AnyRows == [timestamp : Timestamps, close : AnyPrices]
SeqsUpTo(S, n) == UNION {[1..k -> S] : k \in 0..n}

\* DataFrame.sort_index(): ascending by timestamp, rows of one timestamp
\* keeping their order.
RECURSIVE insert_sorted(_, _)
insert_sorted(sorted, row) ==
    IF sorted = << >> \/ sorted[Len(sorted)].timestamp <= row.timestamp
    THEN Append(sorted, row)
    ELSE Append(insert_sorted(SubSeq(sorted, 1, Len(sorted) - 1), row),
                sorted[Len(sorted)])

sort_index_mut_drop(data) ==
    IF data = << >> THEN << >> ELSE <<data[1]>>

\* The rows left in the order given.
sort_index_mut_unsorted(data) == data

RECURSIVE sort_index(_)
sort_index(data) ==
    IF data = << >>
    THEN << >>
    ELSE insert_sorted(sort_index(SubSeq(data, 1, Len(data) - 1)), data[Len(data)])

\* historical_data.loc[:current_timestamp]: the number of leading rows of the
\* sorted data whose timestamp is at most current_timestamp.
visible_rows(data, current_timestamp) ==
    Cardinality({i \in 1..Len(data) : data[i].timestamp <= current_timestamp})

\* BacktestEngine.__init__
InitBacktest ==
    /\ mode = "none"
    /\ balance_usd = MaxInitialBalance
    /\ positions = NoPositions
    /\ trade_history = << >>
    /\ journal \in InitialJournals
    /\ header_written = EventLogger_init(journal)
    /\ bt_pc = "idle"
    /\ bt_data = << >>
    /\ bt_i = 0
    /\ bt_initial = MaxInitialBalance
    /\ bt_summary = NoSummary
    /\ bt_runs = 0
    /\ NoHistory
    /\ NoRisk
    /\ NoCallers
    /\ clock = 0
    /\ last = NoCall

\* BacktestEngine.execute_trade: the ledger stamps the trade with now, the
\* journal record carries the step's timestamp.
\* execute_trade reporting success whatever the ledger answered.
BacktestEngine_execute_trade_mut_always_success(order_type, symbol, amount, price, timestamp, bal, pos, hist, jrnl, hw, now, outcome) ==
    LET t == PortfolioManager_execute_trade(bal, pos, hist, order_type, symbol,
                                            amount, price, now)
        w == IF t.ok
             THEN log_trade(jrnl, hw,
                            trade_record(order_type, symbol, amount, price, timestamp),
                            outcome)
             ELSE [journal |-> jrnl, header_written |-> hw]
    IN  [status |-> "success",
         applied |-> t.ok,
         balance_usd |-> t.balance_usd, positions |-> t.positions,
         trade_history |-> t.trade_history,
         journal |-> w.journal, header_written |-> w.header_written]

BacktestEngine_execute_trade(order_type, symbol, amount, price, timestamp, bal, pos, hist, jrnl, hw, now, outcome) ==
    LET t == PortfolioManager_execute_trade(bal, pos, hist, order_type, symbol,
                                            amount, price, now)
        w == IF t.ok
             THEN log_trade(jrnl, hw,
                            trade_record(order_type, symbol, amount, price, timestamp),
                            outcome)
             ELSE [journal |-> jrnl, header_written |-> hw]
    IN  [status |-> IF t.ok THEN "success" ELSE "failure",
         applied |-> t.ok,
         balance_usd |-> t.balance_usd, positions |-> t.positions,
         trade_history |-> t.trade_history,
         journal |-> w.journal, header_written |-> w.header_written]

\* The trade_result of a loop iteration that attempts no trade.
no_trade(status, bal, pos, hist, jrnl, hw) ==
    [status |-> status, applied |-> FALSE,
     balance_usd |-> bal, positions |-> pos, trade_history |-> hist,
     journal |-> jrnl, header_written |-> hw]

\* One iteration of run_backtest's loop on row, the strategy answering signal.
backtest_iteration_mut_sell_anyway(signal, row, bal, pos, hist, jrnl, hw, now, outcome) ==
    IF signal = "buy"
    THEN BacktestEngine_execute_trade("buy", StrategySymbol, FixedBuyAmount, row.close,
                                      row.timestamp, bal, pos, hist, jrnl, hw, now, outcome)
    ELSE IF signal = "sell"
    THEN BacktestEngine_execute_trade("sell", StrategySymbol,
                                      IF StrategySymbol \in DOMAIN pos
                                      THEN pos[StrategySymbol].amount ELSE 0,
                                      row.close, row.timestamp, bal, pos, hist, jrnl, hw,
                                      now, outcome)
    ELSE IF signal = "hold"
    THEN no_trade("hold_signal", bal, pos, hist, jrnl, hw)
    ELSE no_trade("invalid_signal", bal, pos, hist, jrnl, hw)

backtest_iteration_mut_other_buys(signal, row, bal, pos, hist, jrnl, hw, now, outcome) ==
    IF signal = "sell"
    THEN IF StrategySymbol \in DOMAIN pos /\ pos[StrategySymbol].amount > 0
         THEN BacktestEngine_execute_trade("sell", StrategySymbol,
                                           pos[StrategySymbol].amount, row.close,
                                           row.timestamp, bal, pos, hist, jrnl, hw, now,
                                           outcome)
         ELSE no_trade("no_position_to_sell", bal, pos, hist, jrnl, hw)
    ELSE IF signal = "hold"
    THEN no_trade("hold_signal", bal, pos, hist, jrnl, hw)
    ELSE LET t == BacktestEngine_execute_trade("buy", StrategySymbol, FixedBuyAmount,
                                               row.close, row.timestamp, bal, pos, hist,
                                               jrnl, hw, now, outcome)
         IN  IF signal = "buy" THEN t ELSE [t EXCEPT !.status = "invalid_signal"]

backtest_iteration(signal, row, bal, pos, hist, jrnl, hw, now, outcome) ==
    LET symbol == StrategySymbol
        current_timestamp == row.timestamp
        current_price == row.close
    IN  IF signal = "buy"
        THEN BacktestEngine_execute_trade("buy", symbol, FixedBuyAmount, current_price,
                                          current_timestamp, bal, pos, hist, jrnl, hw,
                                          now, outcome)
        ELSE IF signal = "sell"
        THEN LET amount_to_sell == IF symbol \in DOMAIN pos THEN pos[symbol].amount ELSE 0
             IN  IF amount_to_sell > 0
                 THEN BacktestEngine_execute_trade("sell", symbol, amount_to_sell,
                                                   current_price, current_timestamp,
                                                   bal, pos, hist, jrnl, hw, now, outcome)
                 ELSE no_trade("no_position_to_sell", bal, pos, hist, jrnl, hw)
        ELSE IF signal = "hold"
        THEN no_trade("hold_signal", bal, pos, hist, jrnl, hw)
        ELSE no_trade("invalid_signal", bal, pos, hist, jrnl, hw)

\* What run_backtest returns when historical_data.empty.
empty_data_result_mut_completed == [status |-> "completed"]

empty_data_result == [status |-> "error"]

\* run_backtest up to its loop: a fresh ledger, a new EventLogger on the same
\* file, the empty-data exit, the sort.
RunBacktest(historical_data, initial_balance_usd) ==
    /\ bt_pc \in {"idle", "done"}
    /\ bt_runs < MaxRuns
    /\ Len(historical_data) <= MaxRows - clock
    /\ bt_runs' = bt_runs + 1
    /\ bt_initial' = initial_balance_usd
    /\ balance_usd' = initial_balance_usd
    /\ positions' = NoPositions
    /\ trade_history' = << >>
    /\ header_written' = EventLogger_init(journal)
    /\ bt_i' = 0
    /\ IF historical_data = << >>
       THEN /\ bt_pc' = "done"
            /\ bt_data' = << >>
            /\ bt_summary' = empty_data_result
       ELSE /\ bt_pc' = "replaying"
            /\ bt_data' = sort_index(historical_data)
            /\ bt_summary' = NoSummary
    /\ last' = [op |-> "run_backtest", historical_data |-> historical_data,
                initial_balance_usd |-> initial_balance_usd]
    /\ bt_start' = Len(journal)
    /\ UNCHANGED <<journal, mode, clock>>
    /\ UNCHANGED risk
    /\ UNCHANGED <<callers, strategist>>

BacktestStep(signal, outcome) ==
    /\ bt_pc = "replaying"
    /\ bt_i < Len(bt_data)
    /\ LET row == bt_data[bt_i + 1]
           r == backtest_iteration(signal, row, balance_usd, positions, trade_history,
                                   journal, header_written, clock + 1, outcome)
       IN  /\ r.applied \/ outcome = "ok"
           /\ balance_usd' = r.balance_usd
           /\ positions' = r.positions
           /\ trade_history' = r.trade_history
           /\ journal' = r.journal
           /\ header_written' = r.header_written
           /\ last' = [op |-> "backtest_step", signal |-> signal,
                       timestamp |-> row.timestamp, price |-> row.close,
                       visible |-> visible_rows(bt_data, row.timestamp),
                       outcome |-> outcome, applied |-> r.applied,
                       status |-> r.status]
    /\ bt_i' = bt_i + 1
    /\ clock' = clock + 1
    /\ UNCHANGED <<mode, bt_pc, bt_data, bt_initial, bt_summary, bt_runs, bt_start>>
    /\ UNCHANGED risk
    /\ UNCHANGED <<callers, strategist>>

\* The summary valued at the first row's close instead of the last one's.
BacktestSummarize_mut_first_close ==
    /\ bt_pc = "replaying"
    /\ bt_i = Len(bt_data)
    /\ LET current_price == bt_data[1].close
           final_portfolio_value ==
               get_portfolio_value(balance_usd, positions,
                                   (StrategySymbol :> current_price))
       IN  bt_summary' = [status |-> "completed",
                          symbol |-> StrategySymbol,
                          initial_balance_usd |-> bt_initial,
                          final_balance_usd |-> balance_usd,
                          final_portfolio_value_usd |-> final_portfolio_value,
                          total_pnl_usd |-> final_portfolio_value - bt_initial]
    /\ bt_pc' = "done"
    /\ last' = [op |-> "summarize"]
    /\ UNCHANGED <<ledger, logger, mode, bt_data, bt_i, bt_initial, bt_runs, clock>>
    /\ UNCHANGED history
    /\ UNCHANGED risk
    /\ UNCHANGED <<callers, strategist>>

\* run_backtest after its loop: the summary.
BacktestSummarize ==
    /\ bt_pc = "replaying"
    /\ bt_i = Len(bt_data)
    /\ LET current_price == bt_data[Len(bt_data)].close
           initial_portfolio_value == bt_initial
           final_portfolio_value ==
               get_portfolio_value(balance_usd, positions,
                                   (StrategySymbol :> current_price))
           total_pnl == final_portfolio_value - initial_portfolio_value
       IN  bt_summary' = [status |-> "completed",
                          symbol |-> StrategySymbol,
                          initial_balance_usd |-> bt_initial,
                          final_balance_usd |-> balance_usd,
                          final_portfolio_value_usd |-> final_portfolio_value,
                          total_pnl_usd |-> total_pnl]
    /\ bt_pc' = "done"
    /\ last' = [op |-> "summarize"]
    /\ UNCHANGED <<ledger, logger, mode, bt_data, bt_i, bt_initial, bt_runs, clock>>
    /\ UNCHANGED history
    /\ UNCHANGED risk
    /\ UNCHANGED <<callers, strategist>>

RunWellFormed ==
    \E historical_data \in SeqsUpTo(WellFormedRows, MaxRows - clock),
       initial_balance_usd \in InitialBalances :
        RunBacktest(historical_data, initial_balance_usd) /\ Unrecorded

RunAny ==
    \E historical_data \in SeqsUpTo(AnyRows, MaxRows - clock),
       initial_balance_usd \in InitialBalances :
        RunBacktest(historical_data, initial_balance_usd) /\ Unrecorded

Replay ==
    \E signal \in Signals, outcome \in WriteOutcomes :
        BacktestStep(signal, outcome) /\ Unrecorded

NextBacktest == RunWellFormed \/ Replay \/ BacktestSummarize
SpecBacktest == InitBacktest /\ [][NextBacktest]_vars

\* run_backtest is sequential code: once called, its for loop takes its next
\* iteration while rows remain and, the rows exhausted, control passes to the
\* summary.  An iteration is possible with one signal exactly when it is with
\* any, and each one consumes a row, so fairness on the iteration that holds
\* says what fairness on Replay says: the loop does not stall before a row.
SpecBacktestFair ==
    /\ SpecBacktest
    /\ WF_vars(BacktestStep("hold", "ok") /\ Unrecorded)
    /\ WF_vars(BacktestSummarize)

\* Two runs of one engine, recorded: what a finished run was given and what
\* it ended with is kept when the next run starts.
appended_records(jrnl, start) ==
    SelectSeq(SubSeq(jrnl, start + 1, Len(jrnl)), LAMBDA line : line.kind = "record")

run_observed ==
    [status |-> bt_summary.status,
     historical_data |-> bt_data,
     initial_balance_usd |-> bt_initial,
     signals |-> bt_signals,
     balance_usd |-> balance_usd,
     positions |-> positions,
     records |-> appended_records(journal, bt_start),
     summary |-> bt_summary]

RunRecorded ==
    \E historical_data \in SeqsUpTo(WellFormedRows, MaxRows - clock),
       initial_balance_usd \in InitialBalances :
        /\ RunBacktest(historical_data, initial_balance_usd)
        /\ bt_signals' = << >>
        /\ bt_prev' = IF bt_pc = "done" THEN run_observed ELSE bt_prev
        /\ bt_input' = historical_data

ReplayRecorded ==
    \E signal \in Signals, outcome \in WriteOutcomes :
        /\ BacktestStep(signal, outcome)
        /\ bt_signals' = Append(bt_signals, signal)
        /\ UNCHANGED <<bt_prev, bt_input>>

NextReplayTwice == RunRecorded \/ ReplayRecorded \/ BacktestSummarize
SpecReplayTwice == InitBacktest /\ [][NextReplayTwice]_vars

\* A run whose input is kept as the caller passed it, rows in any order.
RunInputKept ==
    \E historical_data \in SeqsUpTo(WellFormedRows, MaxRows - clock),
       initial_balance_usd \in InitialBalances :
        /\ RunBacktest(historical_data, initial_balance_usd)
        /\ bt_input' = historical_data
        /\ UNCHANGED <<bt_signals, bt_prev>>

NextReplayOrder == RunInputKept \/ Replay \/ BacktestSummarize
SpecReplayOrder == InitBacktest /\ [][NextReplayOrder]_vars

\* The same engine fed rows whose close price may be zero or negative.
NextBacktestAny == RunAny \/ Replay \/ BacktestSummarize
SpecBacktestAny == InitBacktest /\ [][NextBacktestAny]_vars

(***************************************************************************)
(* The engine at the scale of its defaults.  An amount is a number of lots *)
(* of 0.01 units, the size of every buy, and a price is in dollars per     *)
(* unit; amount * price is then a number of cents, and so is the balance.  *)
(***************************************************************************)
LotsPerUnit == 100
DefaultInitialBalance == 10000
Cents(usd) == LotsPerUnit * usd

ScenarioPrices == {30000, 31000}
ScenarioRows == [timestamp : Timestamps, close : ScenarioPrices]

InitScenario ==
    /\ mode = "none"
    /\ balance_usd = Cents(DefaultInitialBalance)
    /\ positions = NoPositions
    /\ trade_history = << >>
    /\ journal \in InitialJournals
    /\ header_written = EventLogger_init(journal)
    /\ bt_pc = "idle"
    /\ bt_data = << >>
    /\ bt_i = 0
    /\ bt_initial = Cents(DefaultInitialBalance)
    /\ bt_summary = NoSummary
    /\ bt_runs = 0
    /\ NoHistory
    /\ NoRisk
    /\ NoCallers
    /\ clock = 0
    /\ last = NoCall

RunScenario ==
    \E historical_data \in SeqsUpTo(ScenarioRows, MaxRows - clock) :
        RunBacktest(historical_data, Cents(DefaultInitialBalance)) /\ Unrecorded

NextScenario == RunScenario \/ Replay \/ BacktestSummarize
SpecScenario == InitScenario /\ [][NextScenario]_vars

(***************************************************************************)
(* RiskManager                                                             *)
(***************************************************************************)
\* p > q for rationals with positive denominators
RatGreater(p, q) == p.n * q.d > q.n * p.d

\* The limits a RiskManager is constructed with: fractions.
DrawdownLimits == {RatZero, Rat(1, 4), Rat(1, 2)}
\* The portfolio values a caller passes.
EquityValues == (-1)..MaxEquity

\* RiskManager.__init__ on a ledger nobody trades on.
InitRisk ==
    /\ max_drawdown \in DrawdownLimits
    /\ max_position_size = Rat(1, 2)
    /\ risk_per_trade = Rat(1, 50)
    /\ current_drawdown = RatZero
    /\ peak_equity = 0
    /\ exceeded_at = NeverExceeded
    /\ NoCallers
    /\ balance_usd = MaxInitialBalance
    /\ positions = NoPositions
    /\ trade_history = << >>
    /\ journal = << >>
    /\ header_written = FALSE
    /\ mode = "none"
    /\ NoBacktest
    /\ clock = 0
    /\ last = NoCall

\* check_max_drawdown with the comparison weakened to >=.
check_max_drawdown_mut_at_limit(peak, limit, portfolio_value) ==
    LET new_peak == IF portfolio_value > peak THEN portfolio_value ELSE peak
        drawdown == IF new_peak # 0
                    THEN Rat(new_peak - portfolio_value, new_peak)
                    ELSE RatZero
    IN  [peak_equity |-> new_peak, current_drawdown |-> drawdown,
         exceeded |-> ~RatGreater(limit, drawdown)]

\* check_max_drawdown taking the value passed as the peak.
check_max_drawdown_mut_track_value(peak, limit, portfolio_value) ==
    [peak_equity |-> portfolio_value, current_drawdown |-> RatZero, exceeded |-> FALSE]

\* check_max_drawdown starting a new peak at a value it reported as exceeded.
check_max_drawdown_mut_reset_on_breach(peak, limit, portfolio_value) ==
    LET new_peak == IF portfolio_value > peak THEN portfolio_value ELSE peak
        drawdown == IF new_peak # 0
                    THEN Rat(new_peak - portfolio_value, new_peak)
                    ELSE RatZero
        exceeded == RatGreater(drawdown, limit)
    IN  [peak_equity |-> IF exceeded THEN portfolio_value ELSE new_peak,
         current_drawdown |-> drawdown, exceeded |-> exceeded]

\* RiskManager.check_max_drawdown: the peak and the drawdown it leaves and
\* the value it returns.
check_max_drawdown(peak, limit, portfolio_value) ==
    LET new_peak == IF portfolio_value > peak THEN portfolio_value ELSE peak
        drawdown == IF new_peak # 0
                    THEN Rat(new_peak - portfolio_value, new_peak)
                    ELSE RatZero
    IN  [peak_equity |-> new_peak, current_drawdown |-> drawdown,
         exceeded |-> RatGreater(drawdown, limit)]

\* RiskManager.check_max_position_size, and the same with the limit itself
\* refused.
check_max_position_size_mut_strict(limit, amount_usd, portfolio_value) ==
    IF portfolio_value = 0
    THEN FALSE
    ELSE RatGreater(limit, Rat(amount_usd, portfolio_value))

check_max_position_size(limit, amount_usd, portfolio_value) ==
    IF portfolio_value = 0
    THEN FALSE
    ELSE LET position_size == Rat(amount_usd, portfolio_value)
         IN  ~RatGreater(position_size, limit)

\* RiskManager.check_risk_per_trade
check_risk_per_trade(limit, usd_risk, portfolio_value) ==
    IF portfolio_value = 0
    THEN FALSE
    ELSE LET risk_percentage == Rat(usd_risk, portfolio_value)
         IN  ~RatGreater(risk_percentage, limit)

\* check_trade_limits taking the new peak before it looks at the order.
check_trade_limits_mut_peak_first(peak, drawdown, limits, order_params, portfolio_value) ==
    LET r == check_max_drawdown(peak, limits.max_drawdown, portfolio_value)
        passes ==
            /\ all_fields(order_params)
            /\ check_max_position_size(limits.max_position_size,
                                       order_params.amount * order_params.price,
                                       portfolio_value)
    IN  [result |-> passes /\ ~r.exceeded, reached_drawdown |-> passes,
         peak_equity |-> r.peak_equity, current_drawdown |-> r.current_drawdown]

\* RiskManager.check_trade_limits: the value returned, whether the drawdown
\* check was reached, and the peak and drawdown the call leaves.
check_trade_limits(peak, drawdown, limits, order_params, portfolio_value) ==
    IF ~all_fields(order_params)
    THEN [result |-> FALSE, reached_drawdown |-> FALSE,
          peak_equity |-> peak, current_drawdown |-> drawdown]
    ELSE LET usd_value == order_params.amount * order_params.price
         IN  IF ~check_max_position_size(limits.max_position_size, usd_value,
                                         portfolio_value)
             THEN [result |-> FALSE, reached_drawdown |-> FALSE,
                   peak_equity |-> peak, current_drawdown |-> drawdown]
             ELSE LET r == check_max_drawdown(peak, limits.max_drawdown,
                                              portfolio_value)
                  IN  [result |-> ~r.exceeded, reached_drawdown |-> TRUE,
                       peak_equity |-> r.peak_equity,
                       current_drawdown |-> r.current_drawdown]

\* The greatest value a drawdown check has reported as exceeded, as a set of
\* at most one element.
record_exceeded(seen, exceeded, portfolio_value) ==
    IF exceeded /\ \A v \in seen : portfolio_value > v
    THEN {portfolio_value}
    ELSE seen

RiskLimits ==
    [max_drawdown |-> max_drawdown, max_position_size |-> max_position_size,
     risk_per_trade |-> risk_per_trade]

LimitsUnchanged == UNCHANGED <<max_drawdown, max_position_size, risk_per_trade>>
RiskOnly ==
    /\ UNCHANGED <<ledger, logger, mode>>
    /\ UNCHANGED backtest
    /\ UNCHANGED history
    /\ UNCHANGED <<callers, strategist>>

CallCheckMaxDrawdown(portfolio_value) ==
    /\ clock < MaxChecks
    /\ clock' = clock + 1
    /\ LET r == check_max_drawdown(peak_equity, max_drawdown, portfolio_value)
       IN  /\ peak_equity' = r.peak_equity
           /\ current_drawdown' = r.current_drawdown
           /\ exceeded_at' = record_exceeded(exceeded_at, r.exceeded, portfolio_value)
           /\ last' = [op |-> "check_max_drawdown",
                       portfolio_value |-> portfolio_value,
                       result |-> r.exceeded]
    /\ LimitsUnchanged
    /\ RiskOnly

CallCheckMaxPositionSize(amount_usd, portfolio_value) ==
    /\ clock < MaxChecks
    /\ clock' = clock + 1
    /\ last' = [op |-> "check_max_position_size",
                amount_usd |-> amount_usd,
                portfolio_value |-> portfolio_value,
                result |-> check_max_position_size(max_position_size, amount_usd,
                                                   portfolio_value)]
    /\ UNCHANGED risk
    /\ RiskOnly

CallCheckRiskPerTrade(usd_risk, portfolio_value) ==
    /\ clock < MaxChecks
    /\ clock' = clock + 1
    /\ last' = [op |-> "check_risk_per_trade",
                usd_risk |-> usd_risk,
                portfolio_value |-> portfolio_value,
                result |-> check_risk_per_trade(risk_per_trade, usd_risk,
                                                portfolio_value)]
    /\ UNCHANGED risk
    /\ RiskOnly

CallCheckTradeLimits(order_params, portfolio_value) ==
    /\ clock < MaxChecks
    /\ clock' = clock + 1
    /\ LET r == check_trade_limits(peak_equity, current_drawdown, RiskLimits,
                                   order_params, portfolio_value)
       IN  /\ peak_equity' = r.peak_equity
           /\ current_drawdown' = r.current_drawdown
           /\ exceeded_at' = record_exceeded(exceeded_at,
                                             r.reached_drawdown /\ ~r.result,
                                             portfolio_value)
           /\ last' = [op |-> "check_trade_limits",
                       order |-> order_params,
                       portfolio_value |-> portfolio_value,
                       reached_drawdown |-> r.reached_drawdown,
                       result |-> r.result]
    /\ LimitsUnchanged
    /\ RiskOnly

\* The orders a risk check is asked about: well-formed ones, and ones with a
\* field missing.
RiskOrders ==
    LET whole == [order_type : WellFormedTypes, symbol : {"BTC"},
                  amount : 1..MaxOrderAmount, price : WellFormedPrices]
    IN  whole \cup {Drop(b, f) : b \in BaseOrders, f \in OrderFields}
UsdAmounts == 0..MaxOrderAmount

CheckDrawdown == \E portfolio_value \in EquityValues : CallCheckMaxDrawdown(portfolio_value)

CheckPositionSize ==
    \E amount_usd \in UsdAmounts, portfolio_value \in EquityValues :
        CallCheckMaxPositionSize(amount_usd, portfolio_value)

CheckRiskPerTrade ==
    \E usd_risk \in UsdAmounts, portfolio_value \in EquityValues :
        CallCheckRiskPerTrade(usd_risk, portfolio_value)

CheckTradeLimits ==
    \E order_params \in RiskOrders, portfolio_value \in EquityValues :
        CallCheckTradeLimits(order_params, portfolio_value)

NextRisk == CheckDrawdown \/ CheckPositionSize \/ CheckRiskPerTrade \/ CheckTradeLimits
SpecRisk == InitRisk /\ [][NextRisk]_vars

(***************************************************************************)
(* Several EventLogger instances on one journal file.                      *)
(***************************************************************************)
InitLoggers ==
    /\ journal \in InitialJournals
    /\ header_written = FALSE
    /\ mode = "none"
    /\ balance_usd = 0
    /\ positions = NoPositions
    /\ trade_history = << >>
    /\ NoBacktest
    /\ NoRisk
    /\ NoCallers
    /\ clock = 0
    /\ last = NoCall

LoggersOnly ==
    /\ UNCHANGED <<ledger, header_written, mode, held_ref>>
    /\ UNCHANGED backtest
    /\ UNCHANGED history
    /\ UNCHANGED risk
    /\ UNCHANGED strategist

\* EventLogger(): a further instance whose filepath is the journal file.
ConstructLogger ==
    /\ Len(loggers) < MaxLoggers
    /\ loggers' = Append(loggers, EventLogger_init(journal))
    /\ last' = [op |-> "EventLogger", logger |-> Len(loggers) + 1]
    /\ UNCHANGED <<journal, clock>>
    /\ LoggersOnly

\* log_event(event_data) on the i-th instance.
CallLogEvent(i, event_data, outcome) ==
    /\ clock < MaxLogged
    /\ clock' = clock + 1
    /\ LET r == log_event(journal, loggers[i], event_data, outcome)
       IN  /\ journal' = r.journal
           /\ loggers' = [loggers EXCEPT ![i] = r.header_written]
    /\ last' = [op |-> "log_event", logger |-> i, outcome |-> outcome]
    /\ LoggersOnly

LogThroughInstance ==
    \E i \in 1..Len(loggers), order_type \in WellFormedTypes, outcome \in WriteOutcomes :
        CallLogEvent(i, trade_record(order_type, "BTC", 1, 1, clock + 1), outcome)

NextLoggers == ConstructLogger \/ LogThroughInstance
SpecLoggers == InitLoggers /\ [][NextLoggers]_vars

(***************************************************************************)
(* ExecutionCoordinator.get_portfolio_status, PortfolioManager's           *)
(* get_positions, and what their caller holds afterwards.                  *)
(***************************************************************************)
\* get_positions returns self.positions: the ledger's own dictionary, not a
\* copy of it.  The caller's value is a reference to that object.
get_positions == "PortfolioManager.positions"

\* The dictionary a reference denotes.
Deref(ref, pos) == IF ref = "PortfolioManager.positions" THEN pos ELSE NoPositions

\* get_portfolio_status(current_prices_usd): None and {} both skip the
\* valuation; each is the empty price map here.
get_portfolio_status(bal, pos, current_prices_usd) ==
    IF DOMAIN current_prices_usd # {}
    THEN LET pnl_data == calculate_pnl(pos, current_prices_usd)
         IN  [usd_balance |-> bal,
              positions |-> pos,
              position_pnl |-> pnl_data.position_pnl,
              total_pnl |-> pnl_data.total_pnl,
              portfolio_value_usd |-> get_portfolio_value(bal, pos, current_prices_usd)]
    ELSE [usd_balance |-> bal, positions |-> pos]

\* A status call that books the valuation as cash.
CallGetPortfolioStatus_mut_marks_to_market(current_prices_usd) ==
    /\ last' = [op |-> "get_portfolio_status", prices |-> current_prices_usd,
                value |-> get_portfolio_status(balance_usd, positions,
                                               current_prices_usd)]
    /\ held_ref' = get_positions
    /\ balance_usd' = get_portfolio_value(balance_usd, positions, current_prices_usd)
    /\ UNCHANGED <<positions, trade_history, logger, mode, clock, loggers>>
    /\ UNCHANGED backtest
    /\ UNCHANGED history
    /\ UNCHANGED risk
    /\ UNCHANGED strategist

CallGetPortfolioStatus(current_prices_usd) ==
    /\ last' = [op |-> "get_portfolio_status", prices |-> current_prices_usd,
                value |-> get_portfolio_status(balance_usd, positions,
                                               current_prices_usd)]
    /\ held_ref' = get_positions
    /\ UNCHANGED <<ledger, logger, mode, clock, loggers>>
    /\ UNCHANGED backtest
    /\ UNCHANGED history
    /\ UNCHANGED risk
    /\ UNCHANGED strategist

CallGetPositions ==
    /\ last' = [op |-> "get_positions", value |-> positions]
    /\ held_ref' = get_positions
    /\ UNCHANGED <<ledger, logger, mode, clock, loggers>>
    /\ UNCHANGED backtest
    /\ UNCHANGED history
    /\ UNCHANGED risk
    /\ UNCHANGED strategist

\* The caller assigns an entry of the dictionary it was handed:
\* returned[symbol] = {'amount': amount, 'avg_price': 0}.
CallerWrites(symbol, amount) ==
    /\ held_ref # "none"
    /\ LET entry == [amount |-> amount, avg_price |-> RatZero]
           written == [s \in (DOMAIN Deref(held_ref, positions)) \cup {symbol} |->
                           IF s = symbol THEN entry ELSE Deref(held_ref, positions)[s]]
       IN  IF held_ref = "PortfolioManager.positions"
           THEN positions' = written
           ELSE positions' = positions
    /\ last' = [op |-> "caller_write", symbol |-> symbol, amount |-> amount]
    /\ UNCHANGED <<balance_usd, trade_history, logger, mode, clock>>
    /\ UNCHANGED backtest
    /\ UNCHANGED history
    /\ UNCHANGED risk
    /\ UNCHANGED <<callers, strategist>>

ReadStatus == \E prices \in PriceMaps : CallGetPortfolioStatus(prices)
WriteReturned ==
    \E symbol \in Symbols, amount \in 0..MaxOrderAmount : CallerWrites(symbol, amount)

NextStatus == SubmitGoodOrder \/ ReadStatus \/ CallGetPositions
SpecStatus == InitCoordinator /\ [][NextStatus]_vars

\* The same, with a caller that writes into what it was handed.
NextAlias == SubmitGoodOrder \/ ReadStatus \/ CallGetPositions \/ WriteReturned
SpecAlias == InitCoordinator /\ [][NextAlias]_vars

(***************************************************************************)
(* Strategist.run: one pass over asset_pairs.  Each pair is processed in   *)
(* up to two steps: the fetches, the valuation and the risk check, then    *)
(* the coordinator's execute_trade when the check allowed it.              *)
(***************************************************************************)
\* The amount of every buy order of run: 0.01 units, one lot.
StrategistBuyAmount == 1

\* What the regime classifier may answer.
Regimes == {"bull", "bear", "sideways", "other"}

\* The max_position_size a RiskManager is constructed with: the default
\* 0.5, or the whole portfolio.
PositionSizeLimits == {Rat(1, 2), RatOfInt(1)}

\* main(): ExecutionCoordinator(mode), RiskManager(...), Strategist(...).
InitStrategist ==
    /\ mode \in {"simulation", "live"}
    /\ balance_usd = MaxInitialBalance
    /\ positions = NoPositions
    /\ trade_history = << >>
    /\ journal \in InitialJournals
    /\ header_written = EventLogger_init(journal)
    /\ NoBacktest
    /\ max_drawdown \in DrawdownLimits
    /\ max_position_size \in PositionSizeLimits
    /\ risk_per_trade = Rat(1, 50)
    /\ current_drawdown = RatZero
    /\ peak_equity = 0
    /\ exceeded_at = NeverExceeded
    /\ loggers = << >>
    /\ held_ref = "none"
    /\ st_pc = "fetch"
    /\ st_pair = 1
    /\ st_prices = NoPrices
    /\ st_order = NoOrder
    /\ clock = 0
    /\ last = NoCall

\* self.current_prices[symbol] = current_price
set_price(prices, symbol, current_price) ==
    [s \in (DOMAIN prices) \cup {symbol} |->
        IF s = symbol THEN current_price ELSE prices[s]]

\* Where run goes after check_trade_limits answered: on to execute_trade, or
\* (continue) to the next pair.
after_check_mut_trade_anyway(allowed) == "execute"

after_check(allowed) == IF allowed THEN "execute" ELSE "fetch"

\* The loop moves to the next pair, or ends after the last.
NextPair ==
    /\ st_pair' = st_pair + 1
    /\ st_pc' = IF st_pair = MaxPairs THEN "done" ELSE "fetch"

\* A pair whose historical data, cleaned data or realtime price is missing.
StrategistNoData ==
    /\ st_pc = "fetch"
    /\ NextPair
    /\ last' = [op |-> "strategist_no_data", pair |-> st_pair]
    /\ UNCHANGED <<ledger, logger, mode, clock, st_prices, st_order>>
    /\ UNCHANGED backtest
    /\ UNCHANGED history
    /\ UNCHANGED risk
    /\ UNCHANGED callers

\* The order run builds for this regime, if it builds one.
builds_order(pos, symbol, regime) ==
    \/ regime = "bull"
    \/ regime = "bear" /\ symbol \in DOMAIN pos /\ pos[symbol].amount > 0

order_for(pos, symbol, regime, current_price) ==
    IF regime = "bull"
    THEN [order_type |-> "buy", symbol |-> symbol,
          amount |-> StrategistBuyAmount, price |-> current_price]
    ELSE [order_type |-> "sell", symbol |-> symbol,
          amount |-> pos[symbol].amount, price |-> current_price]

\* A pair in a regime that trades nothing: sideways, an unknown regime, or
\* bear with no position to sell.
StrategistNoTrade(symbol, regime, current_price) ==
    /\ st_pc = "fetch"
    /\ ~builds_order(positions, symbol, regime)
    /\ st_prices' = set_price(st_prices, symbol, current_price)
    /\ NextPair
    /\ last' = [op |-> "strategist_no_trade", pair |-> st_pair, regime |-> regime]
    /\ UNCHANGED <<ledger, logger, mode, clock, st_order>>
    /\ UNCHANGED backtest
    /\ UNCHANGED history
    /\ UNCHANGED risk
    /\ UNCHANGED callers

\* A pair for which an order is built: the portfolio is valued at the prices
\* known so far and the order is put to check_trade_limits.
StrategistCheck(symbol, regime, current_price) ==
    /\ st_pc = "fetch"
    /\ builds_order(positions, symbol, regime)
    /\ st_prices' = set_price(st_prices, symbol, current_price)
    /\ LET portfolio_value ==
               get_portfolio_status(balance_usd, positions,
                                    st_prices').portfolio_value_usd
           order_params == order_for(positions, symbol, regime, current_price)
           r == check_trade_limits(peak_equity, current_drawdown, RiskLimits,
                                   order_params, portfolio_value)
       IN  /\ peak_equity' = r.peak_equity
           /\ current_drawdown' = r.current_drawdown
           /\ exceeded_at' = record_exceeded(exceeded_at,
                                             r.reached_drawdown /\ ~r.result,
                                             portfolio_value)
           /\ st_order' = order_params
           /\ IF after_check(r.result) = "execute"
              THEN st_pc' = "execute" /\ st_pair' = st_pair
              ELSE NextPair
           /\ last' = [op |-> "check_trade_limits",
                       order |-> order_params,
                       portfolio_value |-> portfolio_value,
                       reached_drawdown |-> r.reached_drawdown,
                       result |-> r.result]
    /\ LimitsUnchanged
    /\ UNCHANGED <<ledger, logger, mode, clock>>
    /\ UNCHANGED backtest
    /\ UNCHANGED history
    /\ UNCHANGED callers

\* self.execution_coordinator.execute_trade(order_params), then the next pair.
StrategistExecute(slippage, outcome) ==
    /\ st_pc = "execute"
    /\ clock' = clock + 1
    /\ (mode = "simulation" /\ exchange_validates(st_order)) \/ slippage = 0
    /\ LET execution_result ==
               IF mode = "simulation"
               THEN VirtualExchange_execute_order(st_order, slippage)
               ELSE ExchangeConnector_execute_order(st_order)
           r == ExecutionCoordinator_execute_trade(execution_result, balance_usd,
                    positions, trade_history, journal, header_written,
                    clock + 1, outcome)
       IN  /\ r.applied \/ outcome = "ok"
           /\ balance_usd' = r.balance_usd
           /\ positions' = r.positions
           /\ trade_history' = r.trade_history
           /\ journal' = r.journal
           /\ header_written' = r.header_written
           /\ last' = [op |-> "coordinator_execute_trade", order |-> st_order,
                       exchange |-> execution_result, outcome |-> outcome,
                       applied |-> r.applied, status |-> r.status]
    /\ NextPair
    /\ UNCHANGED <<mode, st_prices, st_order>>
    /\ UNCHANGED backtest
    /\ UNCHANGED history
    /\ UNCHANGED risk
    /\ UNCHANGED callers

PairWithoutTrade ==
    \E symbol \in Symbols, regime \in Regimes, current_price \in QuotedPrices :
        StrategistNoTrade(symbol, regime, current_price)
PairChecked ==
    \E symbol \in Symbols, regime \in Regimes, current_price \in QuotedPrices :
        StrategistCheck(symbol, regime, current_price)
PairTraded ==
    \E slippage \in SlippageSamples, outcome \in WriteOutcomes :
        StrategistExecute(slippage, outcome)

NextStrategist == StrategistNoData \/ PairWithoutTrade \/ PairChecked \/ PairTraded
SpecStrategist == InitStrategist /\ [][NextStrategist]_vars

(***************************************************************************)
(* What a step did, read from the call it recorded.                        *)
(***************************************************************************)
\* This step is a call of PortfolioManager.execute_trade for order_type.
TradeStep(order_type) ==
    /\ clock' = clock + 1
    /\ last'.op = "execute_trade"
    /\ last'.order_type = order_type

LedgerUnchanged ==
    /\ balance_usd' = balance_usd
    /\ positions' = positions
    /\ trade_history' = trade_history

\* A symbol absent from the map is a zero position.
HeldAmount(pos, symbol) == IF symbol \in DOMAIN pos THEN pos[symbol].amount ELSE 0
LastWasTrade(order_type, ok) ==
    last.op = "execute_trade" /\ last.order_type = order_type /\ last.ok = ok

(***************************************************************************)
(* C1.  After every call of execute_trade with a side in {buy, sell},      *)
(* amount > 0 and price > 0, accepted or rejected, from a non-negative     *)
(* initial balance: balance_usd >= 0 and every position's amount >= 0.     *)
(***************************************************************************)
C1_NonNegative ==
    /\ balance_usd >= 0
    /\ \A s \in DOMAIN positions : positions[s].amount >= 0

\* Buys spent the whole balance, and a sell of more than is held was rejected:
\* both quantities are at the edge the guards protect.
C1_Witness ==
    /\ Len(trade_history) >= 2
    /\ balance_usd = 0
    /\ LastWasTrade("sell", FALSE)
    /\ last.symbol \in DOMAIN positions

(***************************************************************************)
(* C2.  A buy with amount*price > balance_usd returns False and leaves     *)
(* balance_usd, every position (no new symbol entry) and trade_history     *)
(* unchanged.                                                              *)
(***************************************************************************)
C2_BuyRejectedUnchanged ==
    [][(TradeStep("buy") /\ last'.amount * last'.price > balance_usd)
           => (~last'.ok /\ LedgerUnchanged)]_vars

\* A buy was rejected although the ledger has funds and has traded before.
C2_Witness ==
    /\ LastWasTrade("buy", FALSE)
    /\ last.amount * last.price > balance_usd
    /\ balance_usd > 0
    /\ Len(trade_history) > 0
    /\ last.symbol \notin DOMAIN positions

(***************************************************************************)
(* C3.  A sell with amount > position.amount (a symbol never held counts   *)
(* as a zero position) returns False and leaves balance_usd, every         *)
(* position and trade_history unchanged, creating no symbol entry.         *)
(***************************************************************************)
C3_SellRejectedUnchanged ==
    [][(TradeStep("sell") /\ last'.amount > HeldAmount(positions, last'.symbol))
           => (~last'.ok /\ LedgerUnchanged)]_vars

\* A sell of more than the held, non-zero amount was rejected.
C3_Witness ==
    /\ LastWasTrade("sell", FALSE)
    /\ last.symbol \in DOMAIN positions
    /\ positions[last.symbol].amount > 0
    /\ last.amount > positions[last.symbol].amount

(***************************************************************************)
(* C4.  Weighted-average cost.  After an accepted buy of a at p onto       *)
(* (old_amount, old_avg) with old_amount > 0, avg_price is                 *)
(* (old_amount*old_avg + a*p) / (old_amount + a); with no prior holding    *)
(* avg_price is p.  Buying a1@p1 then a2@p2 from an empty position gives   *)
(* (a1*p1 + a2*p2) / (a1 + a2).  The equalities are cross-multiplied.      *)
(***************************************************************************)
C4_BuyStep ==
    (TradeStep("buy") /\ last'.ok) =>
        LET s == last'.symbol
            a == last'.amount
            p == last'.price
            old_amount == HeldAmount(positions, s)
            new == positions'[s].avg_price
        IN  IF old_amount > 0
            THEN LET old == positions[s].avg_price
                 IN  new.n * (old_amount + a) * old.d
                         = (old_amount * old.n + a * p * old.d) * new.d
            ELSE old_amount = 0 => (new.n = p /\ new.d = 1)

C4_TwoBuys ==
    (/\ Len(trade_history) = 2
     /\ trade_history[1].type = "buy" /\ trade_history[2].type = "buy"
     /\ trade_history[1].symbol = trade_history[2].symbol) =>
        LET t1 == trade_history[1]
            t2 == trade_history[2]
            avg == positions[t1.symbol].avg_price
        IN  avg.n * (t1.amount + t2.amount)
                = (t1.amount * t1.price + t2.amount * t2.price) * avg.d

C4_WeightedAverage == [][C4_BuyStep]_vars /\ []C4_TwoBuys

\* Two buys of one symbol whose weighted average is not a whole number.
C4_Witness ==
    /\ LastWasTrade("buy", TRUE)
    /\ Len(trade_history) = 2
    /\ trade_history[1].type = "buy"
    /\ trade_history[1].symbol = last.symbol
    /\ positions[last.symbol].avg_price.d > 1

(***************************************************************************)
(* C5.  A sell that brings the amount to exactly 0 resets avg_price to 0   *)
(* and keeps the symbol's entry; the next accepted buy of the symbol at p  *)
(* sets avg_price = p, whatever was traded before the close.               *)
(***************************************************************************)
C5_CloseStep ==
    (TradeStep("sell") /\ last'.ok
        /\ HeldAmount(positions, last'.symbol) = last'.amount) =>
        /\ last'.symbol \in DOMAIN positions'
        /\ positions'[last'.symbol] = [amount |-> 0, avg_price |-> RatZero]

C5_ReopenStep ==
    (TradeStep("buy") /\ last'.ok
        /\ last'.symbol \in DOMAIN positions
        /\ positions[last'.symbol].amount = 0) =>
        positions'[last'.symbol] =
            [amount |-> last'.amount, avg_price |-> RatOfInt(last'.price)]

C5_CloseResetsCostBasis == [][C5_CloseStep /\ C5_ReopenStep]_vars

\* A position was bought, sold out, and bought again at another price.
C5_Witness ==
    /\ Len(trade_history) = 3
    /\ trade_history[1].type = "buy"
    /\ trade_history[2].type = "sell"
    /\ trade_history[3].type = "buy"
    /\ trade_history[1].symbol = trade_history[2].symbol
    /\ trade_history[2].symbol = trade_history[3].symbol
    /\ trade_history[1].amount = trade_history[2].amount
    /\ trade_history[1].price # trade_history[3].price
    /\ positions[trade_history[3].symbol].avg_price = RatOfInt(trade_history[3].price)

(***************************************************************************)
(* C6.  In every ledger state reachable by well-formed buys and sells,     *)
(* every position has avg_price >= 0.                                      *)
(***************************************************************************)
C6_AvgPriceNonNegative ==
    \A s \in DOMAIN positions : positions[s].avg_price.n >= 0

(***************************************************************************)
(* C7.  A malformed order (amount <= 0, price <= 0, or a side other than   *)
(* buy/sell) never changes the ledger and is reported as a failure value:  *)
(* on a direct PortfolioManager.execute_trade call, and on a backtest step *)
(* whose close price is not positive.                                      *)
(***************************************************************************)
Malformed(order_type, amount, price) ==
    amount <= 0 \/ price <= 0 \/ order_type \notin {"buy", "sell"}

C7_MalformedDirectCallRejected ==
    [][(/\ clock' = clock + 1
        /\ last'.op = "execute_trade"
        /\ Malformed(last'.order_type, last'.amount, last'.price))
           => (~last'.ok /\ LedgerUnchanged)]_vars

\* The same claim on the backtest path (a property of SpecBacktestAny).
C7_MalformedBacktestStepRejected ==
    [][(/\ clock' = clock + 1
        /\ last'.op = "backtest_step"
        /\ last'.price <= 0)
           => (last'.status # "success" /\ LedgerUnchanged)]_vars

\* And on the coordinator's path (a property of SpecCoordinator), where the
\* exchange refuses the order before the ledger sees it.
C7_MalformedCoordinatorOrderRejected ==
    [][(/\ clock' = clock + 1
        /\ last'.op = "coordinator_execute_trade"
        /\ last'.order \in MalformedOrders)
           => (last'.status # "success" /\ LedgerUnchanged)]_vars

(***************************************************************************)
(* C8.  In ExecutionCoordinator.execute_trade: when the exchange reports   *)
(* success but the ledger rejects the trade at the executed price          *)
(* (insufficient funds or position), the outcome is failure, nothing is    *)
(* journaled and the ledger is unchanged; when the exchange does not       *)
(* report success, ledger and journal are not touched.                     *)
(***************************************************************************)
CoordinatorStep ==
    clock' = clock + 1 /\ last'.op = "coordinator_execute_trade"

Insufficient(ex) ==
    \/ ex.order_type = "buy" /\ ex.executed_amount * ex.executed_price > balance_usd
    \/ ex.order_type = "sell" /\ ex.executed_amount > HeldAmount(positions, ex.symbol)

C8_LedgerRejects ==
    (CoordinatorStep /\ last'.exchange.status = "success"
        /\ Insufficient(last'.exchange)) =>
        /\ last'.status = "failure"
        /\ journal' = journal
        /\ LedgerUnchanged

C8_ExchangeFails ==
    (CoordinatorStep /\ last'.exchange.status # "success") =>
        /\ LedgerUnchanged
        /\ journal' = journal /\ header_written' = header_written

C8_CoordinatorFailure == [][C8_LedgerRejects /\ C8_ExchangeFails]_vars

\* A buy the quoted price makes affordable and the executed price does not:
\* the exchange filled it and the ledger refused it.
C8_Witness ==
    /\ last.op = "coordinator_execute_trade"
    /\ last.exchange.status = "success"
    /\ last.status = "failure"
    /\ last.order.order_type = "buy"
    /\ last.order.amount * last.order.price <= balance_usd
    /\ last.exchange.executed_amount * last.exchange.executed_price > balance_usd
    /\ Len(trade_history) > 0

(***************************************************************************)
(* C9.  After any sequence of trade attempts through                       *)
(* BacktestEngine.execute_trade or ExecutionCoordinator.execute_trade, the *)
(* journal holds exactly one record for each trade the ledger applied      *)
(* (each attempt reported as success), in application order, and none for  *)
(* a failed attempt, for every outcome of the journal file write.  Stated  *)
(* per attempt: an attempt the ledger applies is reported as success and   *)
(* puts its record after the journal's records; any other adds none.       *)
(***************************************************************************)
Core(r) ==
    [type |-> r.type, symbol |-> r.symbol, amount |-> r.amount,
     price |-> r.price, usd_value |-> r.usd_value]
CoreSeq(q) == [i \in 1..Len(q) |-> Core(q[i])]
IsRecord(line) == line.kind = "record"
Records(jrnl) == CoreSeq(SelectSeq(jrnl, IsRecord))

TradeAttempt ==
    /\ clock' = clock + 1
    /\ last'.op \in {"coordinator_execute_trade", "backtest_step"}
LedgerApplied == Len(trade_history') = Len(trade_history) + 1

C9_Step ==
    TradeAttempt =>
        /\ (last'.status = "success") <=> LedgerApplied
        /\ IF LedgerApplied
           THEN Records(journal')
                    = Append(Records(journal), Core(trade_history'[Len(trade_history')]))
           ELSE Records(journal') = Records(journal)

C9_OneRecordPerAppliedTrade == [][C9_Step]_vars

(***************************************************************************)
(* C10.  The journal is append-only: every log_trade call leaves the lines *)
(* already in the file unchanged and in order, and what it writes, ending  *)
(* with the new record, comes after them; no step of a run truncates,      *)
(* rewrites or reorders the file.                                          *)
(***************************************************************************)
IsPrefix(p, q) == Len(p) <= Len(q) /\ SubSeq(q, 1, Len(p)) = p

C10_Step ==
    /\ IsPrefix(journal, journal')
    /\ (TradeAttempt /\ last'.applied /\ last'.outcome = "ok") =>
          /\ Len(journal') > Len(journal)
          /\ IsRecord(journal'[Len(journal')])
          /\ Core(journal'[Len(journal')]) = Core(trade_history'[Len(trade_history')])
          /\ \A i \in (Len(journal) + 1)..(Len(journal') - 1) : journal'[i] = Header

RunStep == last'.op = "run_backtest" /\ bt_runs' = bt_runs + 1

C11_EmptyRunStep ==
    (RunStep /\ last'.historical_data = << >>) =>
        /\ bt_summary'.status = "error"
        /\ bt_pc' = "done"
        /\ bt_i' = 0
        /\ trade_history' = << >>
        /\ journal' = journal

\* Once the error is returned nothing more happens in that run: no signal is
\* asked for, no trade is applied, no line is written.
C11_AfterEmptyRun ==
    (bt_summary.status = "error" /\ bt_runs' = bt_runs) =>
        /\ bt_pc = "done"
        /\ UNCHANGED <<ledger, logger, bt_i, bt_summary>>

C11_EmptyDataIsAnError == [][C11_EmptyRunStep /\ C11_AfterEmptyRun]_vars

\* An empty run on an engine whose earlier run traded and journaled.
C11_Witness ==
    /\ bt_summary.status = "error"
    /\ bt_runs = 2
    /\ last.op = "run_backtest"
    /\ last.historical_data = << >>
    /\ journal # << >>
    /\ journal[Len(journal)].kind = "record"
    /\ journal[Len(journal)] # OldRecord

(***************************************************************************)
(* C12.  For every non-empty input series and every per-step signal (buy,  *)
(* sell, hold, anything else), run_backtest processes every row exactly    *)
(* once; a rejected or no-op trade at one step never stops the following   *)
(* steps; the run ends with status completed.                              *)
(***************************************************************************)
BacktestStepTaken == clock' = clock + 1 /\ last'.op = "backtest_step"

Occurrences(data, row) == Cardinality({i \in 1..Len(data) : data[i] = row})

\* The rows the loop iterates over are the input's rows, each as many times
\* as the input holds it.
C12_RunStep ==
    (RunStep /\ last'.historical_data # << >>) =>
        /\ bt_pc' = "replaying"
        /\ bt_i' = 0
        /\ Len(bt_data') = Len(last'.historical_data)
        /\ \A row \in AnyRows :
              Occurrences(bt_data', row) = Occurrences(last'.historical_data, row)

\* Each iteration takes the next row, whatever its trade attempt came to,
\* and leaves the loop running.
C12_ReplayStep ==
    BacktestStepTaken =>
        /\ bt_i' = bt_i + 1
        /\ bt_i' <= Len(bt_data)
        /\ last'.timestamp = bt_data[bt_i'].timestamp
        /\ last'.price = bt_data[bt_i'].close
        /\ bt_pc' = "replaying"
        /\ bt_data' = bt_data

\* While rows remain, the iteration on the next row has an outcome for every
\* signal: none of them raises or leaves the loop.
StepStatuses ==
    {"success", "failure", "no_position_to_sell", "hold_signal", "invalid_signal"}

C12_NeverStuck ==
    (bt_pc = "replaying" /\ bt_i < Len(bt_data)) =>
        \A signal \in Signals, outcome \in WriteOutcomes :
            backtest_iteration(signal, bt_data[bt_i + 1], balance_usd, positions,
                               trade_history, journal, header_written, clock + 1,
                               outcome).status \in StepStatuses

C12_Completed ==
    (bt_pc = "done" /\ bt_summary.status # "error") =>
        /\ bt_summary.status = "completed"
        /\ bt_data # << >>
        /\ bt_i = Len(bt_data)

C12_EveryRowOnceThenCompleted ==
    /\ [][C12_RunStep /\ C12_ReplayStep]_vars
    /\ [](C12_NeverStuck /\ C12_Completed)
    /\ ((bt_pc = "replaying") ~> (bt_pc = "done" /\ bt_summary.status = "completed"))

\* A completed run of two rows whose first step applied no trade (rejected,
\* nothing to sell, hold or an unknown signal) and whose second step traded.
C12_Witness ==
    /\ bt_pc = "done"
    /\ bt_summary.status = "completed"
    /\ bt_i = 2
    /\ Len(trade_history) = 1
    /\ trade_history[1].timestamp = clock

(***************************************************************************)
(* C13.  No lookahead: at each replay step the data handed to              *)
(* strategy.generate_signal holds only rows replayed at this step or at an *)
(* earlier one, for every input series, repeated timestamps included.  The *)
(* data handed over is the first last.visible rows of the sorted series,   *)
(* and bt_i rows have been replayed once the step is taken.                *)
(***************************************************************************)
C13_NoLookahead ==
    [][BacktestStepTaken => last'.visible <= bt_i']_vars

(***************************************************************************)
(* C14.  A backtest step with a sell signal while the held amount of the   *)
(* symbol is zero (or the symbol was never bought) yields the outcome      *)
(* no_position_to_sell, leaves balance, positions and journal unchanged,   *)
(* and the replay goes on to the next step.                                *)
(***************************************************************************)
JournalUnchanged == journal' = journal /\ header_written' = header_written

C15_Step ==
    (BacktestStepTaken /\ last'.signal \notin {"buy", "sell"}) =>
        /\ LedgerUnchanged
        /\ JournalUnchanged
        /\ ~last'.applied
        /\ last'.status = IF last'.signal = "hold" THEN "hold_signal" ELSE "invalid_signal"

C15_InvalidSignalIsNoOp == [][C15_Step]_vars

\* An unknown signal arrives while a position bought at the step before is
\* held and journaled.
C15_Witness ==
    /\ last.op = "backtest_step"
    /\ last.signal = "other"
    /\ last.status = "invalid_signal"
    /\ HeldAmount(positions, StrategySymbol) > 0
    /\ Len(trade_history) = 1
    /\ journal # << >>
    /\ journal[Len(journal)] # OldRecord

(***************************************************************************)
(* C16.  End to end, from an initial balance of 10000: a buy step of 0.01  *)
(* units at 30000 gives balance 9700 and position {0.01, avg 30000}; a     *)
(* later sell step of 0.01 units at 31000 gives balance 10010 and position *)
(* {0, avg 0}; the summary reports final portfolio value 10010 at last     *)
(* price 31000 and total PnL 10.                                           *)
(***************************************************************************)
ScenarioBought ==
    /\ bt_initial = Cents(DefaultInitialBalance)
    /\ Len(trade_history) >= 1
    /\ Core(trade_history[1]) =
           [type |-> "buy", symbol |-> StrategySymbol, amount |-> 1,
            price |-> 30000, usd_value |-> Cents(300)]

ScenarioSold ==
    /\ ScenarioBought
    /\ Len(trade_history) = 2
    /\ trade_history[2].type = "sell"
    /\ trade_history[2].price = 31000

C16_AfterBuy ==
    (ScenarioBought /\ Len(trade_history) = 1) =>
        /\ balance_usd = Cents(9700)
        /\ positions[StrategySymbol] = [amount |-> 1, avg_price |-> RatOfInt(30000)]

C16_AfterSell ==
    ScenarioSold =>
        /\ trade_history[2].amount = 1
        /\ balance_usd = Cents(10010)
        /\ positions[StrategySymbol] = [amount |-> 0, avg_price |-> RatZero]

C16_Summary ==
    (ScenarioSold /\ bt_pc = "done" /\ bt_data[Len(bt_data)].close = 31000) =>
        /\ bt_summary.status = "completed"
        /\ bt_summary.initial_balance_usd = Cents(10000)
        /\ bt_summary.final_balance_usd = Cents(10010)
        /\ bt_summary.final_portfolio_value_usd = Cents(10010)
        /\ bt_summary.total_pnl_usd = Cents(10)

C16_EndToEnd == C16_AfterBuy /\ C16_AfterSell /\ C16_Summary

\* The scenario was replayed to its summary.
C16_Witness ==
    /\ ScenarioSold
    /\ bt_pc = "done"
    /\ bt_data[Len(bt_data)].close = 31000
    /\ bt_summary.total_pnl_usd = Cents(10)

(***************************************************************************)
(* C17.  In every reachable ledger state and for every price map,          *)
(* get_portfolio_value(prices) = balance_usd + the sum of                  *)
(* amount * prices[symbol] over the held symbols present in prices; a held *)
(* symbol missing from prices contributes 0 and is no error; the call      *)
(* changes no ledger state.                                                *)
(***************************************************************************)
Contribution(s, prices) ==
    IF s \in DOMAIN positions /\ s \in DOMAIN prices
    THEN positions[s].amount * prices[s]
    ELSE 0

C17_Value ==
    last.op = "get_portfolio_value" =>
        last.value = balance_usd + Contribution("BTC", last.prices)
                                 + Contribution("ETH", last.prices)

C17_ReadOnly ==
    (last'.op = "get_portfolio_value" /\ clock' = clock) => LedgerUnchanged

C17_PortfolioValue == []C17_Value /\ [][C17_ReadOnly]_vars

\* Two symbols are held, the price map has one of them.
C17_Witness ==
    /\ last.op = "get_portfolio_value"
    /\ DOMAIN positions = {"BTC", "ETH"}
    /\ \A s \in DOMAIN positions : positions[s].amount > 0
    /\ DOMAIN last.prices = {"ETH"}
    /\ last.value = balance_usd + positions["ETH"].amount * last.prices["ETH"]
    /\ last.value > balance_usd

(***************************************************************************)
(* C18.  In every reachable ledger state and for every price map,          *)
(* calculate_pnl returns per symbol amount * (current_price - avg_price)   *)
(* when amount # 0 (and 0 when amount is 0), and total_pnl is the sum of   *)
(* the per-symbol values it returns.  A held symbol the map has no price   *)
(* for gets 0.  The equalities are cross-multiplied.                       *)
(***************************************************************************)
PnlOf(s) == IF s \in DOMAIN last.value.position_pnl
            THEN last.value.position_pnl[s]
            ELSE RatZero

C18_PerSymbol ==
    last.op = "calculate_pnl" =>
        /\ DOMAIN last.value.position_pnl = DOMAIN positions
        /\ \A s \in DOMAIN positions :
              LET pnl == last.value.position_pnl[s]
                  amount == positions[s].amount
                  avg == positions[s].avg_price
              IN  IF amount # 0 /\ s \in DOMAIN last.prices
                  THEN pnl.n * avg.d = amount * (last.prices[s] * avg.d - avg.n) * pnl.d
                  ELSE pnl = RatZero

C18_Total ==
    last.op = "calculate_pnl" =>
        LET total == last.value.total_pnl
            b == PnlOf("BTC")
            e == PnlOf("ETH")
        IN  total.n * b.d * e.d = (b.n * e.d + e.n * b.d) * total.d

C18_ReadOnly ==
    (last'.op = "calculate_pnl" /\ clock' = clock) => LedgerUnchanged

C18_Pnl == [](C18_PerSymbol /\ C18_Total) /\ [][C18_ReadOnly]_vars

\* A position whose average price is not a whole number is valued at a price
\* above it.
C18_Witness ==
    /\ last.op = "calculate_pnl"
    /\ "BTC" \in DOMAIN positions
    /\ positions["BTC"].amount = 2
    /\ positions["BTC"].avg_price.d > 1
    /\ "BTC" \in DOMAIN last.prices
    /\ last.value.position_pnl["BTC"] = RatOfInt(1)
    /\ last.value.total_pnl = RatOfInt(1)

(***************************************************************************)
(* C19.  Run isolation: at the start of every run_backtest call, whatever  *)
(* runs came before on the same engine or the same journal file, the       *)
(* ledger is fresh (balance = initial_balance_usd, no positions, empty     *)
(* trade history) and the journal the run's summary references holds no    *)
(* record appended by an earlier run.  The lines the file held before the  *)
(* engine was constructed are set aside: the records counted are those the *)
(* engine's own earlier runs appended.                                     *)
(***************************************************************************)
C19_FreshLedger ==
    /\ balance_usd' = last'.initial_balance_usd
    /\ positions' = NoPositions
    /\ trade_history' = << >>

C19_FreshJournal ==
    \A i \in 1..Len(journal') : IsRecord(journal'[i]) => journal'[i] = OldRecord

C19_RunIsolation == [][RunStep => (C19_FreshLedger /\ C19_FreshJournal)]_vars

(***************************************************************************)
(* C20.  The replay is deterministic: two run_backtest calls given the     *)
(* same data rows, the same per-step signals and the same initial balance  *)
(* end with identical final balance, positions, sequence of journal        *)
(* records appended by the run, and summary (the model's summary has no    *)
(* duration field).  The two calls are a finished run and the finished run *)
(* before it on the same engine.                                           *)
(***************************************************************************)
SameInputsAsBefore ==
    /\ bt_pc = "done"
    /\ bt_summary.status = "completed"
    /\ bt_prev.status = "completed"
    /\ bt_prev.historical_data = bt_data
    /\ bt_prev.signals = bt_signals
    /\ bt_prev.initial_balance_usd = bt_initial

C20_Deterministic ==
    SameInputsAsBefore =>
        /\ balance_usd = bt_prev.balance_usd
        /\ positions = bt_prev.positions
        /\ appended_records(journal, bt_start) = bt_prev.records
        /\ bt_summary = bt_prev.summary

(***************************************************************************)
(* C21.  VirtualExchange.execute_order returns failure, with no effect on  *)
(* any state, for an order that lacks a field, whose side is not buy or    *)
(* sell, whose amount is <= 0 or whose price is <= 0; for every other      *)
(* order it returns success with executed_amount equal to the requested    *)
(* amount.  Observed on the coordinator in simulation mode, where the      *)
(* exchange's answer decides whether ledger and journal are touched.       *)
(***************************************************************************)
LacksField(order) == \E f \in OrderFields : ~Has(order, f)

C21_Invalid(order) ==
    \/ LacksField(order)
    \/ order.order_type \notin {"buy", "sell"}
    \/ order.amount <= 0
    \/ order.price <= 0

SimulatedOrderStep == CoordinatorStep /\ mode = "simulation"

C21_Step ==
    SimulatedOrderStep =>
        IF C21_Invalid(last'.order)
        THEN /\ last'.exchange.status = "failure"
             /\ LedgerUnchanged
             /\ journal' = journal /\ header_written' = header_written
             /\ mode' = mode
        ELSE /\ last'.exchange.status = "success"
             /\ last'.exchange.executed_amount = last'.order.amount

C21_ExchangeValidation == [][C21_Step]_vars

\* After a filled order reached the ledger, an order without a price was
\* refused.
C21_Witness ==
    /\ mode = "simulation"
    /\ last.op = "coordinator_execute_trade"
    /\ last.exchange.status = "failure"
    /\ ~Has(last.order, "price")
    /\ Len(trade_history) > 0

(***************************************************************************)
(* C22.  For a well-formed order the live connector,                        *)
(* ExchangeConnector.execute_order, returns an outcome whose status is     *)
(* success or failure and which on success carries executed_price and      *)
(* executed_amount, so that the coordinator in live mode applies a         *)
(* successful order to ledger and journal as it does in simulation mode.   *)
(***************************************************************************)
LiveOrderStep ==
    CoordinatorStep /\ mode = "live" /\ last'.order \in GoodOrders

C22_SameContract ==
    LiveOrderStep =>
        /\ last'.exchange.status \in {"success", "failure"}
        /\ last'.exchange.status = "success" =>
               {"executed_price", "executed_amount"} \subseteq DOMAIN last'.exchange

\* An order the ledger can afford is applied in live mode too.
C22_AppliedAsInSimulation ==
    (LiveOrderStep /\ last'.order.order_type = "buy"
        /\ last'.order.amount * last'.order.price <= balance_usd) =>
        (last'.applied /\ LedgerApplied)

C22_LiveHonoursContract == [][C22_SameContract /\ C22_AppliedAsInSimulation]_vars

(***************************************************************************)
(* C23.  A buy with amount > 0, price > 0 and amount*price <= balance_usd, *)
(* equality included, succeeds: balance_usd decreases by exactly           *)
(* amount*price, the symbol's amount increases by exactly amount, and no   *)
(* other symbol's position changes.                                        *)
(***************************************************************************)
OtherPositionsUnchanged(symbol) ==
    \A s \in Symbols \ {symbol} :
        /\ s \in DOMAIN positions' <=> s \in DOMAIN positions
        /\ s \in DOMAIN positions => positions'[s] = positions[s]

C23_Step ==
    (TradeStep("buy") /\ last'.amount > 0 /\ last'.price > 0
        /\ last'.amount * last'.price <= balance_usd) =>
        /\ last'.ok
        /\ balance_usd' = balance_usd - last'.amount * last'.price
        /\ HeldAmount(positions', last'.symbol)
               = HeldAmount(positions, last'.symbol) + last'.amount
        /\ OtherPositionsUnchanged(last'.symbol)

C23_AffordableBuyApplied == [][C23_Step]_vars

\* A buy that cost the whole remaining balance was accepted while another
\* symbol was held.
C23_Witness ==
    /\ LastWasTrade("buy", TRUE)
    /\ balance_usd = 0
    /\ last.amount * last.price > 0
    /\ \E s \in DOMAIN positions : s # last.symbol /\ positions[s].amount > 0

(***************************************************************************)
(* C24.  A successful sell of amount a <= position.amount at price p       *)
(* increases balance_usd by a*p and decreases position.amount by a; when   *)
(* the remaining amount is non-zero the position's avg_price is left       *)
(* unchanged, and it changes only when the remaining amount is exactly 0.  *)
(***************************************************************************)
RatEq(x, y) == x.n * y.d = y.n * x.d

C24_Step ==
    (TradeStep("sell") /\ last'.ok /\ last'.amount > 0 /\ last'.price > 0) =>
        LET s == last'.symbol
        IN  /\ balance_usd' = balance_usd + last'.amount * last'.price
            /\ positions'[s].amount = positions[s].amount - last'.amount
            /\ positions'[s].amount # 0 =>
                   RatEq(positions'[s].avg_price, positions[s].avg_price)

C24_SellKeepsCostBasis == [][C24_Step]_vars

(***************************************************************************)
(* C25.  A backtest step with a sell signal while the held amount a of the *)
(* symbol is > 0 liquidates the entire position at the step's close price  *)
(* p > 0: the step's outcome is success, the balance increases by a*p, the *)
(* position becomes {amount 0, avg_price 0}, and exactly one sell record   *)
(* with amount a is journaled.                                             *)
(***************************************************************************)
LinesAdded == SubSeq(journal', Len(journal) + 1, Len(journal'))

C25_Ledger ==
    LET a == HeldAmount(positions, StrategySymbol)
    IN  /\ last'.status = "success"
        /\ balance_usd' = balance_usd + a * last'.price
        /\ positions'[StrategySymbol] = [amount |-> 0, avg_price |-> RatZero]

C25_Journal ==
    LET a == HeldAmount(positions, StrategySymbol)
    IN  /\ IsPrefix(journal, journal')
        /\ SelectSeq(LinesAdded, IsRecord)
               = <<RecordLine(trade_record("sell", StrategySymbol, a, last'.price,
                                           last'.timestamp))>>

C25_Step ==
    (/\ BacktestStepTaken
     /\ last'.signal = "sell"
     /\ HeldAmount(positions, StrategySymbol) > 0
     /\ last'.price > 0) => (C25_Ledger /\ C25_Journal)

C25_SellLiquidates == [][C25_Step]_vars

(***************************************************************************)
(* C26.  A backtest step with a buy signal submits a buy of the fixed      *)
(* amount 0.01 (one lot) at that step's close price directly to the        *)
(* ledger: an affordable one is applied at exactly that amount and price.  *)
(* When the ledger rejects it for insufficient funds the step's outcome is *)
(* failure, ledger and journal are unchanged, and the replay continues     *)
(* with the next step.                                                     *)
(***************************************************************************)
BuyStep == BacktestStepTaken /\ last'.signal = "buy"

C26_FixedBuyAtClose ==
    (BuyStep /\ FixedBuyAmount * last'.price <= balance_usd) =>
        /\ last'.status = "success"
        /\ balance_usd' = balance_usd - FixedBuyAmount * last'.price
        /\ HeldAmount(positions', StrategySymbol)
               = HeldAmount(positions, StrategySymbol) + FixedBuyAmount
        /\ Core(trade_history'[Len(trade_history')])
               = Core(trade_record("buy", StrategySymbol, FixedBuyAmount,
                                   last'.price, last'.timestamp))

C26_Rejected ==
    (BuyStep /\ FixedBuyAmount * last'.price > balance_usd) =>
        /\ last'.status = "failure"
        /\ LedgerUnchanged
        /\ JournalUnchanged
        /\ bt_pc' = "replaying"
        /\ bt_i' = bt_i + 1
        /\ bt_data' = bt_data

C26_BuyStep == [][C26_FixedBuyAtClose /\ C26_Rejected]_vars

\* A buy was rejected on an empty balance and a row is left to replay.
C26_Witness ==
    /\ last.op = "backtest_step"
    /\ last.signal = "buy"
    /\ last.status = "failure"
    /\ FixedBuyAmount * last.price > balance_usd
    /\ bt_pc = "replaying"
    /\ bt_i < Len(bt_data)
    /\ Len(journal) > 0

(***************************************************************************)
(* C27.  For every ordering of the input rows, run_backtest replays the    *)
(* steps in ascending timestamp order, the rows being sorted once before   *)
(* the loop, so the timestamps of the journal records appended during one  *)
(* run are non-decreasing.                                                 *)
(***************************************************************************)
Ascending(q) == \A i, j \in 1..Len(q) : i < j => q[i].timestamp <= q[j].timestamp

\* The loop's rows are the input's rows in ascending order.
C27_ReplayOrder ==
    /\ Ascending(bt_data)
    /\ Len(bt_data) = Len(bt_input)
    /\ \A i \in 1..Len(bt_input) :
           Occurrences(bt_data, bt_input[i]) = Occurrences(bt_input, bt_input[i])

C27_StepTakesNextRow ==
    BacktestStepTaken =>
        /\ last'.timestamp = bt_data[bt_i + 1].timestamp
        /\ bt_i' = bt_i + 1
        /\ bt_data' = bt_data

C27_RecordsAscending == Ascending(appended_records(journal, bt_start))

C27_AscendingReplay ==
    /\ [](C27_ReplayOrder /\ C27_RecordsAscending)
    /\ [][C27_StepTakesNextRow]_vars

\* Rows passed in descending order, and the run journaled a trade on each.
C27_Witness ==
    /\ Len(bt_input) = 2
    /\ bt_input[1].timestamp > bt_input[2].timestamp
    /\ Len(appended_records(journal, bt_start)) = 2
    /\ bt_start > 0

(***************************************************************************)
(* C28.  For every completed run the summary satisfies                     *)
(* final_portfolio_value_usd = final ledger balance + held amount of the   *)
(* strategy symbol * close price of the last replayed row,                 *)
(* total_pnl_usd = final_portfolio_value_usd - initial_balance_usd, and    *)
(* final_balance_usd = the ledger's balance after the last step.           *)
(***************************************************************************)
RunCompleted == bt_pc = "done" /\ bt_summary.status = "completed"

C28_SummaryFigures ==
    RunCompleted =>
        LET last_close == bt_data[Len(bt_data)].close
        IN  /\ bt_summary.final_portfolio_value_usd
                   = balance_usd + HeldAmount(positions, StrategySymbol) * last_close
            /\ bt_summary.initial_balance_usd = bt_initial
            /\ bt_summary.total_pnl_usd
                   = bt_summary.final_portfolio_value_usd - bt_summary.initial_balance_usd
            /\ bt_summary.final_balance_usd = balance_usd

\* A run that ends holding a lot bought below the last close.
C28_Witness ==
    /\ RunCompleted
    /\ HeldAmount(positions, StrategySymbol) > 0
    /\ bt_data[1].close # bt_data[Len(bt_data)].close
    /\ bt_summary.total_pnl_usd > 0
    /\ bt_summary.final_balance_usd < bt_summary.initial_balance_usd

(***************************************************************************)
(* C29.  For every validated order and every slippage sample the simulator *)
(* can draw, the fill is adverse or neutral versus the quoted price: a buy *)
(* executes at executed_price >= price and a sell at executed_price        *)
(* <= price.                                                               *)
(***************************************************************************)
C29_Step ==
    (SimulatedOrderStep /\ last'.exchange.status = "success") =>
        IF last'.order.order_type = "buy"
        THEN last'.exchange.executed_price >= last'.order.price
        ELSE last'.exchange.executed_price <= last'.order.price

C29_AdverseFill == [][C29_Step]_vars

(***************************************************************************)
(* C30.  check_max_drawdown(v) first sets peak_equity to                   *)
(* max(peak_equity, v), then returns true (exceeded) exactly when          *)
(* peak_equity # 0 and (peak_equity - v) / peak_equity > max_drawdown; a   *)
(* drawdown exactly equal to max_drawdown is not exceeded, and with        *)
(* peak_equity = 0 the drawdown is 0.  The comparison is cross-multiplied, *)
(* the peak being positive when it is not zero.                            *)
(***************************************************************************)
DrawdownCheck == clock' = clock + 1 /\ last'.op = "check_max_drawdown"

C30_Step ==
    DrawdownCheck =>
        LET v == last'.portfolio_value
        IN  /\ peak_equity' = (IF peak_equity >= v THEN peak_equity ELSE v)
            /\ last'.result <=>
                   (/\ peak_equity' # 0
                    /\ (peak_equity' - v) * max_drawdown.d > max_drawdown.n * peak_equity')
            /\ (peak_equity' # 0
                    /\ (peak_equity' - v) * max_drawdown.d = max_drawdown.n * peak_equity')
                   => ~last'.result
            /\ peak_equity' = 0 => current_drawdown' = RatZero
            /\ peak_equity' # 0 =>
                   current_drawdown'.n * peak_equity'
                       = (peak_equity' - v) * current_drawdown'.d
            /\ max_drawdown' = max_drawdown

C30_DrawdownCheck == [][C30_Step]_vars

\* A value below the peak by exactly the limit was not reported as exceeded.
C30_Witness ==
    /\ last.op = "check_max_drawdown"
    /\ peak_equity > last.portfolio_value
    /\ max_drawdown.n > 0
    /\ (peak_equity - last.portfolio_value) * max_drawdown.d = max_drawdown.n * peak_equity
    /\ ~last.result

(***************************************************************************)
(* C31.  RiskManager.peak_equity is monotonically non-decreasing over any  *)
(* sequence of check_max_drawdown, check_max_position_size,                *)
(* check_risk_per_trade and check_trade_limits calls, and is never reset   *)
(* during the lifetime of the RiskManager instance.                        *)
(***************************************************************************)
RiskOps ==
    {"check_max_drawdown", "check_max_position_size", "check_risk_per_trade",
     "check_trade_limits"}
RiskCall == clock' = clock + 1 /\ last'.op \in RiskOps

C31_Step ==
    RiskCall =>
        /\ peak_equity' >= peak_equity
        /\ peak_equity' \in {peak_equity, last'.portfolio_value}

C31_PeakNeverFalls == [][C31_Step]_vars

\* The peak was raised, and a later drawdown check with a lower value left it.
C31_Witness ==
    /\ last.op \in {"check_max_drawdown", "check_trade_limits"}
    /\ last.op = "check_trade_limits" => last.reached_drawdown
    /\ peak_equity > 0
    /\ last.portfolio_value < peak_equity
    /\ clock = MaxChecks

(***************************************************************************)
(* C32.  check_trade_limits(order, v) returns true exactly when the order  *)
(* has all of order_type, symbol, amount and price, v # 0,                 *)
(* amount*price / v <= max_position_size, and the drawdown of v from the   *)
(* updated peak is <= max_drawdown; it returns false in every other case,  *)
(* including any missing order field.  The quotients are compared by       *)
(* cross-multiplication, with the sign of the divisor.                     *)
(***************************************************************************)
\* num / den <= q, for den # 0 and q.d > 0
QuotientAtMost(num, den, q) ==
    IF den > 0 THEN num * q.d <= q.n * den ELSE num * q.d >= q.n * den

TradeLimitsCall == clock' = clock + 1 /\ last'.op = "check_trade_limits"

C32_Passes(order, v) ==
    /\ ~LacksField(order)
    /\ v # 0
    /\ QuotientAtMost(order.amount * order.price, v, max_position_size)
    /\ LET peak == IF v > peak_equity THEN v ELSE peak_equity
       IN  peak # 0 => QuotientAtMost(peak - v, peak, max_drawdown)

C32_Step ==
    TradeLimitsCall =>
        (last'.result <=> C32_Passes(last'.order, last'.portfolio_value))

C39_StoppedEarly(order, v) ==
    \/ LacksField(order)
    \/ v = 0
    \/ ~QuotientAtMost(order.amount * order.price, v, max_position_size)

C39_Step ==
    TradeLimitsCall =>
        IF C39_StoppedEarly(last'.order, last'.portfolio_value)
        THEN /\ ~last'.result
             /\ peak_equity' = peak_equity
             /\ current_drawdown' = current_drawdown
        ELSE LET v == last'.portfolio_value
             IN  /\ peak_equity' = (IF v > peak_equity THEN v ELSE peak_equity)
                 /\ peak_equity' # 0 =>
                        current_drawdown'.n * peak_equity'
                            = (peak_equity' - v) * current_drawdown'.d

C39_PeakOnlyAfterSizeCheck == [][C39_Step]_vars

\* An oversized order at a value above the peak, after a drawdown was
\* recorded: peak and drawdown stayed as they were.
C39_Witness ==
    /\ last.op = "check_trade_limits"
    /\ ~last.result
    /\ ~LacksField(last.order)
    /\ last.portfolio_value > peak_equity
    /\ peak_equity > 0
    /\ current_drawdown.n > 0

(***************************************************************************)
(* C40.  Drawdown latch: once check_max_drawdown has returned exceeded for *)
(* a portfolio value v, every later check_max_drawdown, and every later    *)
(* check_trade_limits that reaches the drawdown check, with a value        *)
(* w <= v also reports exceeded, for any calls in between, because the     *)
(* peak is never lowered.                                                  *)
(***************************************************************************)
\* An earlier drawdown check reported a value of at least w as exceeded.
ExceededBefore(w) == \E v \in exceeded_at : w <= v

C40_Step ==
    /\ (DrawdownCheck /\ ExceededBefore(last'.portfolio_value)) => last'.result
    /\ (TradeLimitsCall /\ last'.reached_drawdown
            /\ ExceededBefore(last'.portfolio_value)) => ~last'.result

C40_DrawdownLatch == [][C40_Step]_vars

\* A value was reported as exceeded, and a later check of a lower value
\* reported it as exceeded again.
C40_Witness ==
    /\ last.op = "check_max_drawdown"
    /\ last.result
    /\ \E v \in exceeded_at : last.portfolio_value < v
    /\ last.portfolio_value > 0
    /\ max_drawdown.n > 0

(***************************************************************************)
(* C37.  Cash is conserved: from the ledger's construction on, balance_usd *)
(* equals the initial balance minus the usd_value of every buy in          *)
(* trade_history plus the usd_value of every sell in it; and               *)
(* trade_history grows by exactly one record on a trade that is accepted   *)
(* and by none on a trade that is rejected.                                *)
(***************************************************************************)
RECURSIVE NetFlow(_)
NetFlow(hist) ==
    IF hist = << >>
    THEN 0
    ELSE LET t == hist[Len(hist)]
             flow == IF t.type = "buy" THEN -t.usd_value
                     ELSE IF t.type = "sell" THEN t.usd_value
                     ELSE 0
         IN  NetFlow(SubSeq(hist, 1, Len(hist) - 1)) + flow

C37_Conserved ==
    \A initial \in InitialBalances :
        (balance_usd = initial /\ trade_history = << >>)
            => [](balance_usd = initial + NetFlow(trade_history))

C37_Growth ==
    (last'.op = "execute_trade" /\ clock' # clock) =>
        IF last'.ok
        THEN /\ Len(trade_history') = Len(trade_history) + 1
             /\ SubSeq(trade_history', 1, Len(trade_history)) = trade_history
        ELSE trade_history' = trade_history

C37_CashConservation == C37_Conserved /\ [][C37_Growth]_vars

\* A buy and a sell are on record, and the trade after them was rejected.
C37_Witness ==
    /\ last.op = "execute_trade"
    /\ ~last.ok
    /\ Len(trade_history) = 2
    /\ \E i, j \in 1..2 : trade_history[i].type = "buy" /\ trade_history[j].type = "sell"
    /\ \E i \in 1..2 : trade_history[i].usd_value > 1

(***************************************************************************)
(* C38.  In every state reachable by well-formed trades a position whose   *)
(* amount is 0 has avg_price 0, and a symbol that has an entry in          *)
(* positions keeps it: no trade removes an entry.                          *)
(***************************************************************************)
C38_ClosedIsReset ==
    \A s \in DOMAIN positions :
        positions[s].amount = 0 => positions[s].avg_price = RatZero

C38_EntryKept == DOMAIN positions \subseteq DOMAIN positions'

C38_ClosedPositions == []C38_ClosedIsReset /\ [][C38_EntryKept]_vars

\* A position was opened and then sold out; its entry is still there, and
\* the last trade was made on the other symbol.
C38_Witness ==
    /\ last.op = "execute_trade"
    /\ last.ok
    /\ \E s \in DOMAIN positions :
        /\ positions[s].amount = 0
        /\ last.symbol # s

(***************************************************************************)
(* C34.  Whenever the journal file holds at least one record, its header   *)
(* line appears exactly once in it and before every record, for any        *)
(* number of EventLogger instances constructed and used in any sequential  *)
(* order on the same file.                                                 *)
(***************************************************************************)
HeaderLines(jrnl) == {i \in 1..Len(jrnl) : jrnl[i] = Header}
RecordLines(jrnl) == {i \in 1..Len(jrnl) : jrnl[i].kind = "record"}

C34_HeaderOnce ==
    RecordLines(journal) # {} =>
        /\ Cardinality(HeaderLines(journal)) = 1
        /\ \A h \in HeaderLines(journal), r \in RecordLines(journal) : h < r

(***************************************************************************)
(* C35.  ExecutionCoordinator.get_portfolio_status, called with or without *)
(* a price map, is a pure read: it leaves the balance, the positions, the  *)
(* trade history and the journal as they were, and what it returns is the  *)
(* balance and the positions of that ledger.                               *)
(***************************************************************************)
C35_Step ==
    last'.op = "get_portfolio_status" =>
        /\ LedgerUnchanged
        /\ JournalUnchanged
        /\ mode' = mode
        /\ last'.value.usd_balance = balance_usd
        /\ last'.value.positions = positions

C35_StatusIsPureRead == [][C35_Step]_vars

\* A status with a valuation, read from a ledger that holds a position and
\* whose trade is in the journal.
C35_Witness ==
    /\ last.op = "get_portfolio_status"
    /\ DOMAIN last.prices # {}
    /\ last.value.portfolio_value_usd > balance_usd
    /\ trade_history # << >>
    /\ RecordLines(journal) # {}

(***************************************************************************)
(* C36.  The positions returned by PortfolioManager.get_positions or by    *)
(* get_portfolio_status are a copy or an immutable view: a trade executed  *)
(* after the read does not change the value the caller already holds, and  *)
(* the caller changing that value does not change the ledger's positions.  *)
(***************************************************************************)
C36_Step ==
    held_ref # "none" =>
        /\ last'.op = "coordinator_execute_trade" =>
               Deref(held_ref', positions') = Deref(held_ref, positions)
        /\ last'.op = "caller_write" => positions' = positions

C36_ReturnedIsDetached == [][C36_Step]_vars

(***************************************************************************)
(* C33.  In Strategist.run the coordinator's execute_trade is invoked for  *)
(* an order only right after check_trade_limits returned true for that     *)
(* same order at the portfolio value of the ledger as it then was; when    *)
(* the check returns false the trade is skipped, the ledger and the        *)
(* journal are left unchanged, and the run goes on to the next pair.       *)
(***************************************************************************)
C33_Execute ==
    (last'.op = "coordinator_execute_trade" /\ clock' # clock) =>
        /\ last.op = "check_trade_limits"
        /\ last.result
        /\ last.order = last'.order
        /\ last.portfolio_value =
               get_portfolio_value(balance_usd, positions, st_prices)

C33_Skip ==
    (st_pc = "fetch" /\ last'.op = "check_trade_limits" /\ ~last'.result) =>
        /\ LedgerUnchanged
        /\ JournalUnchanged
        /\ st_pair' = st_pair + 1
        /\ st_pc' # "execute"

C33_TradeOnlyAfterCheck == [][C33_Execute /\ C33_Skip]_vars

\* A trade went through after its check, a later order was refused, and
\* there is a pair left to process.
C33_Witness ==
    /\ last.op = "check_trade_limits"
    /\ ~last.result
    /\ trade_history # << >>
    /\ st_pc = "fetch"

=============================================================================
